---- MODULE Spec2Model ----
(***************************************************************************)
(* HyperRED data layer: the SparseCube codec, the box-fill encoder         *)
(* (add_joint_label) and the BIO span codec (BioEncoder) of                *)
(* src/data_process.py, as state machines over bounded inputs.             *)
(***************************************************************************)
EXTENDS Integers, Sequences, FiniteSets, TLC

(***************************************************************************)
(* Bounds of the model.                                                    *)
(***************************************************************************)
\* largest extent of one axis of a cube
MaxDim == 2
\* largest number of cells of a cube (2 x 2 x 1)
MaxCells == 4
\* longest raw entry list of a SparseCube
MaxEntries == 2
\* values an entry may carry: 0 (absent / the None id) and two label ids
Values == 0 .. 2
\* shapes of the two cubes compared by check_equal: no volume, and two cells
\* along the first or the last axis
PairShapes == {<<0, 0, 0>>, <<2, 1, 1>>, <<1, 1, 2>>}
\* longest sentence (in tokens) of the entity-only encoding scenario
MaxSeqLenEnt == 4
\* most entities of the entity-only encoding scenario
MaxLabelledEnts == 2
\* longest sentence of the relation and qualifier encoding scenarios
MaxSeqLen == 2
\* most relations of a sentence of the relation scenario
MaxRels == 2
\* numbers of entities of the relation scenario, and of qualifiers and
\* entities of the qualifier scenario
RelEntCounts == 0 .. 2
QualCounts == 0 .. 2
QualEntCounts == 0 .. 3
\* longest tag sequence of the BIO scenario
MaxLength == 3
\* longest label list given to decode_nonzero_spans
MaxLabels == 4
\* most spans of a list of well-formed spans given to BioEncoder.run
MaxSpans == 3
\* most spans of a list that may hold malformed spans
MaxAnySpans == 2
\* sentence lengths and numbers of entities of the encoding scenario whose
\* offsets need not be spans of the sentence
AnyLens == 1 .. 2
AnyEntCounts == 1 .. 2
\* sentence lengths of the decoding scenarios: one sentence, a batch, and
\* a decoder with a possibly empty label list
SoftLens == 1 .. 3
BatchLens == 1 .. 2
ConfigLens == 1 .. 3
\* sentences of a batch
BatchSizes == 1 .. 2
\* values of separate_threshold, in the unit of the scores
SoftThresholds == {0, 4}
\* largest threshold the boundaries are compared at
MaxThreshold == 9
\* the labels of the spans, as strings of characters
BioLabels == {<<"a">>, <<"a", "-", "b">>}
\* longest tag sequence given to BioEncoder.decode directly
MaxTags == 3

VARIABLES
    cpc,        \* position in the SparseCube scenario (test_sparse_cube)
    raw,        \* the raw shape and entry list a SparseCube is built from
    matrix,     \* the SparseCube under test, built from raw
    x,          \* matrix.numpy()
    newCube,    \* SparseCube.from_numpy(x)
    y,          \* newCube.numpy()
    equal,      \* matrix.check_equal(newCube)
    other,      \* a second SparseCube
    equalOther, \* matrix.check_equal(other)
    warned,     \* whether a warning has been issued to the caller
    fpc,          \* position in add_joint_label
    sent,         \* the sentence record passed to add_joint_label
    label_matrix, \* add_joint_label's local label_matrix
    ent2offset,   \* add_joint_label's local ent2offset
    entries,      \* add_joint_label's local entries
    ei,           \* entityMentions already looped over
    ri,           \* relationMentions already looped over
    qi,           \* qualifierMentions already looped over
    returned,     \* the value add_joint_label returned
    bpc,        \* position in the BIO scenario (test_bio)
    spans,      \* the spans given to BioEncoder.run
    length,     \* the length given to BioEncoder.run
    tags,       \* the tags BioEncoder.run returned
    preds,      \* the spans BioEncoder.decode returned
    spc,        \* position in soft_joint_decoding
    self,       \* the decoder's fields the decoding reads
    batch,      \* the arguments: the score arrays and the sentence lengths
    idx,        \* the loop index over batch_seq_tokens_lens
    separate_pos,   \* the boundaries of the current sentence
    soft_spans,     \* the candidate spans of the current sentence (spans)
    soft_ents,      \* the accepted spans of the current sentence (ents)
    ent_pred,       \* span -> label, in insertion order
    rel_pred,       \* (span, span) -> label, in insertion order
    q_pred,         \* (span, span, span) -> label, in insertion order
    separate_position_preds,    \* the four output lists
    ent_preds,
    rel_preds,
    q_preds,
    result,     \* the dict soft_joint_decoding returned
    ppc,            \* position in the data preparation
    quintuplets,    \* the flat quintuplets make_sentences loads
    sentences,      \* the sentences make_sentences writes
    info,           \* the label file make_label_file writes
    tag_info,       \* the label file make_tag_label_file writes
    rpc,            \* position in the recovery of spans or cuboids
    nz_labels,      \* the labels given to decode_nonzero_spans
    nz_spans,       \* the spans decode_nonzero_spans returned
    cuboids         \* the boxes decode_nonzero_cuboids returned

cubeVars ==
    <<cpc, raw, matrix, x, newCube, y, equal, other, equalOther, warned>>

fillVars ==
    <<fpc, sent, label_matrix, ent2offset, entries, ei, ri, qi, returned>>

bioVars == <<bpc, spans, length, tags, preds>>

softVars ==
    <<spc, self, batch, idx, separate_pos, soft_spans, soft_ents,
      ent_pred,
      rel_pred, q_pred, separate_position_preds, ent_preds, rel_preds,
      q_preds, result>>

prepVars == <<ppc, quintuplets, sentences, info, tag_info>>

recVars == <<rpc, nz_labels, nz_spans, cuboids>>

vars == <<cubeVars, fillVars, bioVars, softVars, prepVars, recVars>>

(***************************************************************************)
(* Helpers on sequences.                                                   *)
(***************************************************************************)
Range(s) == {s[n] : n \in 1 .. Len(s)}

SeqsUpTo(S, n) == UNION {[1 .. k -> S] : k \in 0 .. n}

\* all reorderings of a list
PermsOf(s) ==
    IF Len(s) = 0 THEN {s}
    ELSE {[n \in 1 .. Len(s) |-> s[p[n]]] : p \in Permutations(1 .. Len(s))}

(***************************************************************************)
(* SparseCube: shape and entries (i, j, k, value).                         *)
(***************************************************************************)
\* coordinates of an array of the given shape
Cells(shape) ==
    (0 .. shape[1] - 1) \X (0 .. shape[2] - 1) \X (0 .. shape[3] - 1)

SparseCube(shape, es) == [shape |-> shape, entries |-> es]

\* SparseCube.empty()
empty == SparseCube(<<0, 0, 0>>, <<>>)

\* np.zeros(shape)
zeros(shape) == [shape |-> shape, data |-> [c \in Cells(shape) |-> 0]]

\* x[i, j, k] = value
SetItem(a, e) ==
    [a EXCEPT !.data = [c \in DOMAIN a.data |->
        IF c = <<e[1], e[2], e[3]>> THEN e[4] ELSE a.data[c]]]

\* the loop of SparseCube.numpy over entries[from ..]
RECURSIVE WriteEntries(_, _, _)
WriteEntries(a, es, from) ==
    IF from > Len(es) THEN a
    ELSE WriteEntries(SetItem(a, es[from]), es, from + 1)

\* numpy with the loop cut down to the last entry
numpyLastOnly(m) ==
    IF Len(m.entries) = 0 THEN zeros(m.shape)
    ELSE SetItem(zeros(m.shape), m.entries[Len(m.entries)])

\* SparseCube.numpy
numpy(m) == WriteEntries(zeros(m.shape), m.entries, 1)

\* row-major order of coordinates, the order of x.nonzero()
LexLess(c, d) ==
    \/ c[1] < d[1]
    \/ c[1] = d[1] /\ c[2] < d[2]
    \/ c[1] = d[1] /\ c[2] = d[2] /\ c[3] < d[3]

\* x.nonzero(): the coordinates of the nonzero cells in row-major order
RECURSIVE InOrder(_)
InOrder(S) ==
    IF S = {} THEN <<>>
    ELSE LET c == CHOOSE c \in S : \A d \in S \ {c} : LexLess(c, d)
         IN  <<c>> \o InOrder(S \ {c})

nonzero(a) == InOrder({c \in DOMAIN a.data : a.data[c] # 0})

\* from_numpy that records that a cell is set, not its value
from_numpyOnes(a) ==
    LET nz == nonzero(a)
    IN  SparseCube(a.shape,
            [n \in 1 .. Len(nz) |-> <<nz[n][1], nz[n][2], nz[n][3], 1>>])

\* SparseCube.from_numpy
from_numpy(a) ==
    LET nz == nonzero(a)
    IN  SparseCube(a.shape,
            [n \in 1 .. Len(nz) |->
                <<nz[n][1], nz[n][2], nz[n][3], a.data[nz[n]]>>])

\* check_equal comparing the entry lists literally
check_equalOrdered(a, b) == a.shape = b.shape /\ a.entries = b.entries

\* check_equal that leaves the shapes out
check_equalNoShape(a, b) == Range(a.entries) = Range(b.entries)

\* SparseCube.check_equal
check_equal(a, b) == a.shape = b.shape /\ Range(a.entries) = Range(b.entries)

(***************************************************************************)
(* Inputs: raw entry lists whose coordinates lie within the shape.         *)
(***************************************************************************)
Dims == 0 .. MaxDim

Shapes ==
    {sh \in Dims \X Dims \X Dims : Cardinality(Cells(sh)) <= MaxCells}

EntriesIn(shape) ==
    {<<c[1], c[2], c[3], v>> : c \in Cells(shape), v \in Values}

CubesOf(shapes) ==
    UNION {{SparseCube(sh, es) : es \in SeqsUpTo(EntriesIn(sh), MaxEntries)} :
             sh \in shapes}

NoArray == [shape |-> <<0, 0, 0>>, data |-> <<>>]

\* the record of a sentence before it is encoded (make_sentences leaves
\* jointLabelMatrix empty and quintupletMatrix the empty cube)
Sentence(tokens, ents, rels, quals) ==
    [sentText |-> tokens,
     entityMentions |-> ents,
     relationMentions |-> rels,
     qualifierMentions |-> quals,
     jointLabelMatrix |-> <<>>,
     quintupletMatrix |-> empty]

NoSentence == Sentence(<<>>, <<>>, <<>>, <<>>)

\* no encoding in progress
FillIdle ==
    /\ fpc = "idle"
    /\ sent = NoSentence
    /\ label_matrix = <<>>
    /\ ent2offset = <<>>
    /\ entries = <<>>
    /\ ei = 0
    /\ ri = 0
    /\ qi = 0
    /\ returned = NoSentence

\* no tagging in progress
BioIdle ==
    /\ bpc = "idle"
    /\ spans = <<>>
    /\ length = 0
    /\ tags = <<>>
    /\ preds = <<>>

\* the fields of a decoder and the arguments of a call, before any is made
NoDecoder ==
    [separate_threshold |-> 0, none_idx |-> 0, ent_label |-> <<>>,
     rel_label |-> <<>>, q_label |-> <<>>]

NoBatch == [joint_array |-> <<>>, q_array |-> <<>>, lens |-> <<>>]

NoResult ==
    [separate_position_preds |-> <<>>, ent_preds |-> <<>>,
     rel_preds |-> <<>>, q_preds |-> <<>>]

\* no decoding in progress
SoftIdle ==
    /\ spc = "idle"
    /\ self = NoDecoder
    /\ batch = NoBatch
    /\ idx = 0
    /\ separate_pos = <<>>
    /\ soft_spans = <<>>
    /\ soft_ents = <<>>
    /\ ent_pred = <<>>
    /\ rel_pred = <<>>
    /\ q_pred = <<>>
    /\ separate_position_preds = <<>>
    /\ ent_preds = <<>>
    /\ rel_preds = <<>>
    /\ q_preds = <<>>
    /\ result = NoResult

\* no recovery in progress
RecIdle ==
    /\ rpc = "idle"
    /\ nz_labels = <<>>
    /\ nz_spans = <<>>
    /\ cuboids = {}

\* no label file written
NoInfo == [id |-> <<>>, q_num_logits |-> 0]

\* no data preparation in progress
PrepIdle ==
    /\ ppc = "idle"
    /\ quintuplets = <<>>
    /\ sentences = <<>>
    /\ info = NoInfo
    /\ tag_info = NoInfo

\* no cube under test
CubeIdle ==
    /\ cpc = "idle"
    /\ raw = empty
    /\ matrix = empty
    /\ x = NoArray
    /\ newCube = empty
    /\ y = NoArray
    /\ equal = FALSE
    /\ other = empty
    /\ equalOther = FALSE
    /\ warned = FALSE

(***************************************************************************)
(* The SparseCube scenario of analysis.py test_sparse_cube: the cube of a  *)
(* sentence is materialized, rebuilt from the dense array and compared.    *)
(***************************************************************************)
InitCube ==
    /\ cpc = "raw"
    /\ raw \in CubesOf(Shapes)
    /\ matrix = empty
    /\ x = NoArray
    /\ newCube = empty
    /\ y = NoArray
    /\ equal = FALSE
    /\ other = empty
    /\ equalOther = FALSE
    /\ warned = FALSE
    /\ FillIdle
    /\ BioIdle
    /\ SoftIdle
    /\ PrepIdle
    /\ RecIdle

\* SparseCube(shape=..., entries=...): the fields are stored as given; the
\* class declares no validator and nothing is reported to the caller
Construct ==
    /\ cpc = "raw"
    /\ matrix' = SparseCube(raw.shape, raw.entries)
    /\ cpc' = "loaded"
    /\ UNCHANGED <<raw, x, newCube, y, equal, other, equalOther, warned>>
    /\ UNCHANGED fillVars
    /\ UNCHANGED bioVars
    /\ UNCHANGED softVars
    /\ UNCHANGED prepVars
    /\ UNCHANGED recVars

\* x = matrix.numpy()
CallNumpy ==
    /\ cpc = "loaded"
    /\ x' = numpy(matrix)
    /\ cpc' = "dense"
    /\ UNCHANGED <<raw, matrix, newCube, y, equal, other, equalOther, warned>>
    /\ UNCHANGED fillVars
    /\ UNCHANGED bioVars
    /\ UNCHANGED softVars
    /\ UNCHANGED prepVars
    /\ UNCHANGED recVars

\* new = SparseCube.from_numpy(x)
CallFromNumpy ==
    /\ cpc = "dense"
    /\ newCube' = from_numpy(x)
    /\ cpc' = "rebuilt"
    /\ UNCHANGED <<raw, matrix, x, y, equal, other, equalOther, warned>>
    /\ UNCHANGED fillVars
    /\ UNCHANGED bioVars
    /\ UNCHANGED softVars
    /\ UNCHANGED prepVars
    /\ UNCHANGED recVars

\* new.numpy()
CallNumpyNew ==
    /\ cpc = "rebuilt"
    /\ y' = numpy(newCube)
    /\ cpc' = "roundtrip"
    /\ UNCHANGED <<raw, matrix, x, newCube, equal, other, equalOther, warned>>
    /\ UNCHANGED fillVars
    /\ UNCHANGED bioVars
    /\ UNCHANGED softVars
    /\ UNCHANGED prepVars
    /\ UNCHANGED recVars

\* matrix.check_equal(new)
CallCheckEqual ==
    /\ cpc = "roundtrip"
    /\ equal' = check_equal(matrix, newCube)
    /\ cpc' = "compared"
    /\ UNCHANGED <<raw, matrix, x, newCube, y, other, equalOther, warned>>
    /\ UNCHANGED fillVars
    /\ UNCHANGED bioVars
    /\ UNCHANGED softVars
    /\ UNCHANGED prepVars
    /\ UNCHANGED recVars

NextCube ==
    Construct \/ CallNumpy \/ CallFromNumpy \/ CallNumpyNew \/ CallCheckEqual

SpecCube == InitCube /\ [][NextCube]_vars

(***************************************************************************)
(* Properties of the SparseCube scenario.                                  *)
(***************************************************************************)
\* some coordinate occurs in more than one entry of the list
RepeatedCoordinate(es) ==
    \E a, b \in 1 .. Len(es) :
        /\ a # b
        /\ <<es[a][1], es[a][2], es[a][3]>> =
           <<es[b][1], es[b][2], es[b][3]>>

\* some coordinate is given two different values by the list
ConflictingCoordinate(es) ==
    \E a, b \in 1 .. Len(es) :
        /\ <<es[a][1], es[a][2], es[a][3]>> =
           <<es[b][1], es[b][2], es[b][3]>>
        /\ es[a][4] # es[b][4]

NonzeroValues(es) == \A n \in 1 .. Len(es) : es[n][4] # 0

\* C1: a dense array x of non-negative integers, of any shape (zero-sized
\* axes included), comes back unchanged, shape and every cell, from
\* SparseCube.from_numpy(x).numpy().
C1_RoundTrip == cpc \in {"roundtrip", "compared"} => y = x

C1_Witness ==
    /\ cpc = "roundtrip"
    /\ Cardinality({c \in DOMAIN x.data : x.data[c] # 0}) >= 2
    /\ \E c, d \in DOMAIN x.data : x.data[c] = 1 /\ x.data[d] = 2
    /\ y = x

\* C3 as stated: numpy() gives the same dense array for every reordering of
\* the entry list of every SparseCube.
C3_AnyOrderAnyCube ==
    cpc = "dense" =>
        \A p \in PermsOf(matrix.entries) :
            numpy(SparseCube(matrix.shape, p)) = x

\* C3 amended: numpy() gives the same dense array for every reordering of the
\* entry list of a SparseCube in which no coordinate is given two different
\* values.
C3_AnyOrderNoConflict ==
    (cpc = "dense" /\ ~ConflictingCoordinate(matrix.entries)) =>
        \A p \in PermsOf(matrix.entries) :
            numpy(SparseCube(matrix.shape, p)) = x

C3_Witness ==
    /\ cpc = "dense"
    /\ Len(matrix.entries) = 2
    /\ matrix.entries[1] # matrix.entries[2]
    /\ ~ConflictingCoordinate(matrix.entries)
    /\ NonzeroValues(matrix.entries)
    /\ numpy(SparseCube(matrix.shape,
                        <<matrix.entries[2], matrix.entries[1]>>)) = x

\* C4: a SparseCube built from a raw entry list in which a coordinate occurs
\* more than once has the duplicate flagged to the caller as a warning, at
\* construction and when it is materialized with numpy().
C4_DuplicateFlagged ==
    (cpc \in {"loaded", "dense"} /\ RepeatedCoordinate(matrix.entries))
        => warned

\* C5: for a SparseCube m with nonzero values and no coordinate occurring
\* twice in its entries, m.check_equal(SparseCube.from_numpy(m.numpy())) is
\* true.
C5_RebuiltEqual ==
    (/\ cpc = "compared"
     /\ NonzeroValues(matrix.entries)
     /\ ~RepeatedCoordinate(matrix.entries)) => equal

C5_Witness ==
    /\ cpc = "compared"
    /\ Len(matrix.entries) = 2
    /\ NonzeroValues(matrix.entries)
    /\ ~RepeatedCoordinate(matrix.entries)
    /\ matrix.entries # newCube.entries
    /\ equal

(***************************************************************************)
(* Two cubes compared with check_equal.                                    *)
(***************************************************************************)
InitPair ==
    /\ cpc = "pair"
    /\ raw = empty
    /\ matrix \in CubesOf(PairShapes)
    /\ other \in CubesOf(PairShapes)
    /\ x = NoArray
    /\ newCube = empty
    /\ y = NoArray
    /\ equal = FALSE
    /\ equalOther = FALSE
    /\ warned = FALSE
    /\ FillIdle
    /\ BioIdle
    /\ SoftIdle
    /\ PrepIdle
    /\ RecIdle

\* matrix.check_equal(other)
CallCheckEqualOther ==
    /\ cpc = "pair"
    /\ equalOther' = check_equal(matrix, other)
    /\ cpc' = "pairCompared"
    /\ UNCHANGED <<raw, matrix, x, newCube, y, equal, other, warned>>
    /\ UNCHANGED fillVars
    /\ UNCHANGED bioVars
    /\ UNCHANGED softVars
    /\ UNCHANGED prepVars
    /\ UNCHANGED recVars

NextPair == CallCheckEqualOther

SpecPair == InitPair /\ [][NextPair]_vars

\* C2 as stated: for cubes whose entries lie within their shapes,
\* a.check_equal(b) is true exactly when the shapes are equal and the dense
\* forms a.numpy() and b.numpy() are equal.
C2_EqualIffDenseEqual ==
    cpc = "pairCompared" =>
        (equalOther <=>
            (matrix.shape = other.shape /\ numpy(matrix) = numpy(other)))

\* C2 amended: the equivalence holds for cubes whose entries have nonzero
\* values and give no coordinate two different values; the order of the
\* entries and a repeated identical entry make no difference.
C2_EqualIffDenseEqualCanonical ==
    (/\ cpc = "pairCompared"
     /\ NonzeroValues(matrix.entries) /\ NonzeroValues(other.entries)
     /\ ~ConflictingCoordinate(matrix.entries)
     /\ ~ConflictingCoordinate(other.entries)) =>
        (equalOther <=>
            (matrix.shape = other.shape /\ numpy(matrix) = numpy(other)))

C2_Witness ==
    /\ cpc = "pairCompared"
    /\ Len(matrix.entries) = 2 /\ Len(other.entries) = 2
    /\ matrix.entries # other.entries
    /\ NonzeroValues(matrix.entries)
    /\ ~RepeatedCoordinate(matrix.entries)
    /\ numpy(matrix) = numpy(other)
    /\ equalOther

(***************************************************************************)
(* The label vocabulary, as make_label_file lays it out.                   *)
(***************************************************************************)
\* sorted(set(q.label ...)) and sorted(set(r.label ...)) of the sentences
qualifiers == <<"q1", "q2">>

relations == <<"r1", "r2">>

\* ["None", "Entity"] + qualifiers + sorted(set(relations) - set(qualifiers))
labels ==
    <<"None", "Entity">> \o qualifiers
        \o SelectSeq(relations, LAMBDA r : r \notin Range(qualifiers))

\* {name: i for i, name in enumerate(labels)}
label_map ==
    [name \in Range(labels) |->
        (CHOOSE n \in 1 .. Len(labels) : labels[n] = name) - 1]

\* the label file read back by process()
label_vocab == [id |-> label_map]

(***************************************************************************)
(* add_joint_label: the box-fill encoder.                                  *)
(***************************************************************************)
\* range(offset[0], offset[1])
TokenRange(offset) == offset[1] .. offset[2] - 1

\* [[none_id for j in range(seq_len)] for i in range(seq_len)]
NoneMatrix(seq_len, none_id) ==
    [c \in (0 .. seq_len - 1) \X (0 .. seq_len - 1) |-> none_id]

\* the position list[i] refers to: a negative index counts from the end
PyIndex(i, n) == IF i < 0 THEN i + n ELSE i

\* len(label_matrix)
Side(m) ==
    CHOOSE n \in 0 .. Cardinality(DOMAIN m) : n * n = Cardinality(DOMAIN m)

\* for i in rows: for j in cols: label_matrix[i][j] = value
FillRect(m, rows, cols, value) ==
    LET wrappedRows == {PyIndex(i, Side(m)) : i \in rows}
        wrappedCols == {PyIndex(j, Side(m)) : j \in cols}
    IN  [c \in DOMAIN m |->
            IF c[1] \in wrappedRows /\ c[2] \in wrappedCols THEN value
            ELSE m[c]]

\* whether those loops reach an index the list does not have: the body
\* runs only if neither range is empty, and then it meets every column of
\* the first row before the next row
FillRaises(m, rows, cols) ==
    /\ rows # {}
    /\ cols # {}
    /\ \E i \in rows \cup cols : PyIndex(i, Side(m)) \notin 0 .. Side(m) - 1

\* FillEntity that leaves alone the cells an earlier entity has labelled
FillEntityKeepFirst(m, ent, ids) ==
    [c \in DOMAIN m |->
        IF /\ c[1] \in TokenRange(ent.offset)
           /\ c[2] \in TokenRange(ent.offset)
           /\ m[c] = ids["None"]
        THEN ids[ent.label] ELSE m[c]]

\* the body of the loop over entityMentions that writes label_matrix
FillEntity(m, ent, ids) ==
    FillRect(m, TokenRange(ent.offset), TokenRange(ent.offset), ids[ent.label])

\* FillRelation that fills the mirrored rectangle as well
FillRelationSymmetric(m, e2o, rel, ids) ==
    FillRect(FillRect(m, TokenRange(e2o[rel.em1Id]),
                      TokenRange(e2o[rel.em2Id]), ids[rel.label]),
             TokenRange(e2o[rel.em2Id]), TokenRange(e2o[rel.em1Id]),
             ids[rel.label])

\* FillRelation that fills the square over the tokens of head and tail
FillRelationSquare(m, e2o, rel, ids) ==
    FillRect(m, TokenRange(e2o[rel.em1Id]) \cup TokenRange(e2o[rel.em2Id]),
             TokenRange(e2o[rel.em1Id]) \cup TokenRange(e2o[rel.em2Id]),
             ids[rel.label])

\* FillRelation that leaves alone the cells already labelled
FillRelationKeepFirst(m, e2o, rel, ids) ==
    [c \in DOMAIN m |->
        IF /\ c[1] \in TokenRange(e2o[rel.em1Id])
           /\ c[2] \in TokenRange(e2o[rel.em2Id])
           /\ m[c] = ids["None"]
        THEN ids[rel.label] ELSE m[c]]

\* the body of the loop over relationMentions
FillRelation(m, e2o, rel, ids) ==
    FillRect(m, TokenRange(e2o[rel.em1Id]), TokenRange(e2o[rel.em2Id]),
             ids[rel.label])

\* the entries appended for one qualifier, in the order of the three loops
RECURSIVE Cuboid(_, _, _, _, _, _, _)
Cuboid(i, j, k, head, tail, value, id) ==
    IF i >= head[2] THEN <<>>
    ELSE IF j >= tail[2] THEN Cuboid(i + 1, tail[1], value[1], head, tail, value, id)
    ELSE IF k >= value[2] THEN Cuboid(i, j + 1, value[1], head, tail, value, id)
    ELSE <<(<<i, j, k, id>>)>> \o Cuboid(i, j, k + 1, head, tail, value, id)

\* QualifierEntries whose innermost loop runs over the tail span
QualifierEntriesTailTwice(e2o, q, ids) ==
    Cuboid(e2o[q.em1Id][1], e2o[q.em2Id][1], e2o[q.em2Id][1],
           e2o[q.em1Id], e2o[q.em2Id], e2o[q.em2Id], ids[q.label])

\* the body of the loop over qualifierMentions
QualifierEntries(e2o, q, ids) ==
    Cuboid(e2o[q.em1Id][1], e2o[q.em2Id][1], e2o[q.em3Id][1],
           e2o[q.em1Id], e2o[q.em2Id], e2o[q.em3Id], ids[q.label])

\* len(sent["sentText"].split(" "))
SeqLen(s) == Len(s.sentText)

\* lines 344-349 and 360: the locals before the loops
FillInit ==
    /\ fpc = "call"
    /\ label_matrix' = NoneMatrix(SeqLen(sent), label_vocab.id["None"])
    /\ ent2offset' = <<>>
    /\ entries' = <<>>
    /\ fpc' = "fill"
    /\ UNCHANGED <<sent, ei, ri, qi, returned>>
    /\ UNCHANGED cubeVars
    /\ UNCHANGED bioVars
    /\ UNCHANGED softVars
    /\ UNCHANGED prepVars
    /\ UNCHANGED recVars

\* one iteration of the loop over sent["entityMentions"]; an IndexError
\* ends the call, and with it the locals
EntStep ==
    /\ fpc = "fill"
    /\ ei < Len(sent.entityMentions)
    /\ LET ent == sent.entityMentions[ei + 1]
       IN  /\ ent2offset' =
                [id \in DOMAIN ent2offset \cup {ent.emId} |->
                    IF id = ent.emId THEN ent.offset ELSE ent2offset[id]]
           /\ IF FillRaises(label_matrix, TokenRange(ent.offset),
                            TokenRange(ent.offset))
              THEN fpc' = "IndexError" /\ UNCHANGED label_matrix
              ELSE /\ fpc' = fpc
                   /\ label_matrix' =
                          FillEntity(label_matrix, ent, label_vocab.id)
    /\ ei' = ei + 1
    /\ UNCHANGED <<sent, entries, ri, qi, returned>>
    /\ UNCHANGED cubeVars
    /\ UNCHANGED bioVars
    /\ UNCHANGED softVars
    /\ UNCHANGED prepVars
    /\ UNCHANGED recVars

\* one iteration of the loop over sent["relationMentions"]
RelStep ==
    /\ fpc = "fill"
    /\ ei = Len(sent.entityMentions)
    /\ ri < Len(sent.relationMentions)
    /\ LET rel == sent.relationMentions[ri + 1]
       IN  IF FillRaises(label_matrix, TokenRange(ent2offset[rel.em1Id]),
                         TokenRange(ent2offset[rel.em2Id]))
           THEN fpc' = "IndexError" /\ UNCHANGED label_matrix
           ELSE /\ fpc' = fpc
                /\ label_matrix' =
                       FillRelation(label_matrix, ent2offset, rel,
                                    label_vocab.id)
    /\ ri' = ri + 1
    /\ UNCHANGED <<sent, ent2offset, entries, ei, qi, returned>>
    /\ UNCHANGED cubeVars
    /\ UNCHANGED bioVars
    /\ UNCHANGED softVars
    /\ UNCHANGED prepVars
    /\ UNCHANGED recVars

\* one iteration of the loop over sent["qualifierMentions"]
QualStep ==
    /\ fpc = "fill"
    /\ ei = Len(sent.entityMentions)
    /\ ri = Len(sent.relationMentions)
    /\ qi < Len(sent.qualifierMentions)
    /\ entries' =
           entries \o QualifierEntries(ent2offset,
                          sent.qualifierMentions[qi + 1], label_vocab.id)
    /\ qi' = qi + 1
    /\ UNCHANGED <<fpc, sent, label_matrix, ent2offset, ei, ri, returned>>
    /\ UNCHANGED cubeVars
    /\ UNCHANGED bioVars
    /\ UNCHANGED softVars
    /\ UNCHANGED prepVars
    /\ UNCHANGED recVars

\* lines 367-371: the grids are stored in the record, which is returned
FillFinish ==
    /\ fpc = "fill"
    /\ ei = Len(sent.entityMentions)
    /\ ri = Len(sent.relationMentions)
    /\ qi = Len(sent.qualifierMentions)
    /\ sent' =
           [sent EXCEPT
               !.jointLabelMatrix = label_matrix,
               !.quintupletMatrix =
                   SparseCube(<<SeqLen(sent), SeqLen(sent), SeqLen(sent)>>,
                              entries)]
    /\ returned' = sent'
    /\ fpc' = "done"
    /\ UNCHANGED <<label_matrix, ent2offset, entries, ei, ri, qi>>
    /\ UNCHANGED cubeVars
    /\ UNCHANGED bioVars
    /\ UNCHANGED softVars
    /\ UNCHANGED prepVars
    /\ UNCHANGED recVars

(***************************************************************************)
(* Inputs of the encoder: sentences whose offsets are spans within the     *)
(* sentence and whose relations and qualifiers refer to entities of the    *)
(* sentence.  The n-th entity carries the emId n.                          *)
(***************************************************************************)
\* a sentence of n tokens; str.split(" ") never returns an empty list
Tokens(n) == [t \in 1 .. n |-> "w"]

SpansIn(n) == {sp \in (0 .. n - 1) \X (1 .. n) : sp[1] < sp[2]}

Entity(emId, offset, label) ==
    [emId |-> emId, offset |-> offset, label |-> label]

Relation(em1Id, em2Id, label) ==
    [em1Id |-> em1Id, em2Id |-> em2Id, label |-> label]

Qualifier(em1Id, em2Id, em3Id, label) ==
    [em1Id |-> em1Id, em2Id |-> em2Id, em3Id |-> em3Id, label |-> label]

\* entity lists of length k over the spans of an n-token sentence
EntityLists(n, k, entLabels) ==
    {[e \in 1 .. k |-> Entity(e, f[e][1], f[e][2])] :
        f \in [1 .. k -> SpansIn(n) \X entLabels]}

RelationLists(k, numEnts) ==
    {[r \in 1 .. k |-> Relation(f[r][1], f[r][2], f[r][3])] :
        f \in [1 .. k ->
                (1 .. numEnts) \X (1 .. numEnts) \X Range(relations)]}

QualifierLists(k, numEnts) ==
    {[q \in 1 .. k |-> Qualifier(f[q][1], f[q][2], f[q][3], f[q][4])] :
        f \in [1 .. k ->
                (1 .. numEnts) \X (1 .. numEnts) \X (1 .. numEnts)
                    \X Range(qualifiers)]}

FillStart(s) ==
    /\ fpc = "call"
    /\ sent = s
    /\ label_matrix = <<>>
    /\ ent2offset = <<>>
    /\ entries = <<>>
    /\ ei = 0
    /\ ri = 0
    /\ qi = 0
    /\ returned = NoSentence

\* entities only, with differing labels
InitFillEnt ==
    /\ CubeIdle
    /\ BioIdle
    /\ SoftIdle
    /\ PrepIdle
    /\ RecIdle
    /\ \E n \in 1 .. MaxSeqLenEnt, k \in 0 .. MaxLabelledEnts :
         \E ents \in EntityLists(n, k, {"Entity", "q1"}) :
            FillStart(Sentence(Tokens(n), ents, <<>>, <<>>))

NextFillEnt == FillInit \/ EntStep \/ FillFinish

SpecFillEnt == InitFillEnt /\ [][NextFillEnt]_vars

(***************************************************************************)
(* Properties of the encoder.                                              *)
(***************************************************************************)
\* the span of the entity a relation or qualifier names by emId
SpanOf(s, emId) == s.entityMentions[emId].offset

Covers(offset, i) == offset[1] <= i /\ i < offset[2]

\* the entities of the list whose span contains both i and j
Covering(ents, i, j) ==
    {e \in 1 .. Len(ents) : Covers(ents[e].offset, i) /\ Covers(ents[e].offset, j)}

Last(S) == CHOOSE e \in S : \A f \in S : f <= e

\* C6: with no relations, the grid add_joint_label produces is seq_len x
\* seq_len and cell (i, j) holds the label id of the last entity of
\* entityMentions whose span contains both i and j, the None id if there is
\* none.
C6_EntityGridLastWins ==
    (fpc = "done" /\ Len(sent.relationMentions) = 0) =>
        LET L == SeqLen(returned)
            ents == returned.entityMentions
            grid == returned.jointLabelMatrix
        IN  /\ DOMAIN grid = (0 .. L - 1) \X (0 .. L - 1)
            /\ \A i, j \in 0 .. L - 1 :
                 grid[<<i, j>>] =
                     IF Covering(ents, i, j) = {}
                     THEN label_vocab.id["None"]
                     ELSE label_vocab.id[ents[Last(Covering(ents, i, j))].label]

C6_Witness ==
    /\ fpc = "done"
    /\ SeqLen(returned) = 4
    /\ Len(returned.entityMentions) = 2
    /\ returned.entityMentions[1].offset = <<1, 3>>
    /\ returned.entityMentions[2].offset = <<2, 4>>
    /\ returned.entityMentions[1].label # returned.entityMentions[2].label
    /\ returned.jointLabelMatrix[<<1, 1>>] =
           label_vocab.id[returned.entityMentions[1].label]
    /\ returned.jointLabelMatrix[<<2, 2>>] =
           label_vocab.id[returned.entityMentions[2].label]
    /\ returned.jointLabelMatrix[<<0, 0>>] = label_vocab.id["None"]

\* entities and relations
InitFillRel ==
    /\ CubeIdle
    /\ BioIdle
    /\ SoftIdle
    /\ PrepIdle
    /\ RecIdle
    /\ \E n \in 1 .. MaxSeqLen, k \in RelEntCounts, nr \in 0 .. MaxRels :
         \E ents \in EntityLists(n, k, {"Entity"}) :
            \E rels \in RelationLists(nr, k) :
                FillStart(Sentence(Tokens(n), ents, rels, <<>>))

NextFillRel == FillInit \/ EntStep \/ RelStep \/ FillFinish

SpecFillRel == InitFillRel /\ [][NextFillRel]_vars

\* C7: the fill of one relation writes the relation's label id to exactly
\* the cells (i, j) with i in the head span and j in the tail span; every
\* other cell, those of tail x head outside head x tail among them, keeps
\* the value it had before that relation was filled.
C7_RelationFillFrame ==
    [][ri' = ri + 1 =>
        LET rel == sent.relationMentions[ri + 1]
            head == SpanOf(sent, rel.em1Id)
            tail == SpanOf(sent, rel.em2Id)
        IN  /\ DOMAIN label_matrix' = DOMAIN label_matrix
            /\ \A c \in DOMAIN label_matrix :
                 label_matrix'[c] =
                     IF Covers(head, c[1]) /\ Covers(tail, c[2])
                     THEN label_vocab.id[rel.label]
                     ELSE label_matrix[c]
            /\ \A c \in DOMAIN label_matrix :
                 (/\ Covers(tail, c[1]) /\ Covers(head, c[2])
                  /\ ~(Covers(head, c[1]) /\ Covers(tail, c[2])))
                     => label_matrix'[c] = label_matrix[c]]_vars

C7_Witness ==
    /\ fpc = "fill"
    /\ ri = 1
    /\ LET rel == sent.relationMentions[1]
           head == SpanOf(sent, rel.em1Id)
           tail == SpanOf(sent, rel.em2Id)
       IN  /\ head = <<0, 1>>
           /\ tail = <<1, 2>>
           /\ label_matrix[<<0, 1>>] = label_vocab.id[rel.label]
           /\ label_matrix[<<1, 0>>] = label_vocab.id["None"]
           /\ label_matrix[<<0, 0>>] = label_vocab.id["Entity"]

\* entities and qualifiers; the entities in the order of their spans
InitFillQual ==
    /\ CubeIdle
    /\ BioIdle
    /\ SoftIdle
    /\ PrepIdle
    /\ RecIdle
    /\ \E n \in 1 .. MaxSeqLen, k \in QualEntCounts, nq \in QualCounts :
         \E ents \in EntityLists(n, k, {"Entity"}) :
            /\ \A a, b \in 1 .. k :
                 a < b => LexLess(<<ents[a].offset[1], ents[a].offset[2], 0>>,
                                  <<ents[b].offset[1], ents[b].offset[2], 0>>)
            /\ \E quals \in QualifierLists(nq, k) :
                 FillStart(Sentence(Tokens(n), ents, <<>>, quals))

NextFillQual == FillInit \/ EntStep \/ QualStep \/ FillFinish

SpecFillQual == InitFillQual /\ [][NextFillQual]_vars

\* whether the coordinate of t lies in the cuboid of qualifier q
InCuboid(s, q, t) ==
    /\ Covers(SpanOf(s, q.em1Id), t[1])
    /\ Covers(SpanOf(s, q.em2Id), t[2])
    /\ Covers(SpanOf(s, q.em3Id), t[3])

\* no token triple lies in the cuboids of two qualifiers of the sentence
NoSharedTriple(s) ==
    \A a, b \in 1 .. Len(s.qualifierMentions) :
        a # b =>
            \A t \in Cells(<<SeqLen(s), SeqLen(s), SeqLen(s)>>) :
                ~(/\ InCuboid(s, s.qualifierMentions[a], t)
                  /\ InCuboid(s, s.qualifierMentions[b], t))

\* C8: the quintupletMatrix add_joint_label returns has shape (L, L, L); its
\* entry list holds, for each qualifier, exactly one entry (i, j, k,
\* id(label)) for every i in the head span, j in the tail span and k in the
\* value span, and nothing else; when no two cuboids share a token triple no
\* coordinate occurs twice in the list.
C8_QualifierEntries ==
    fpc = "done" =>
        LET L == SeqLen(returned)
            cube == returned.quintupletMatrix
            quals == returned.qualifierMentions
            Owners(t) ==
                {q \in 1 .. Len(quals) :
                    /\ InCuboid(returned, quals[q], t)
                    /\ label_vocab.id[quals[q].label] = t[4]}
            Occurrences(t) ==
                Cardinality({n \in 1 .. Len(cube.entries) : cube.entries[n] = t})
        IN  /\ cube.shape = <<L, L, L>>
            \* nothing but entries of some qualifier's cuboid, with its label
            /\ \A n \in 1 .. Len(cube.entries) : Owners(cube.entries[n]) # {}
            \* each of them once per qualifier it belongs to
            /\ \A q \in 1 .. Len(quals) :
                 \A c \in Cells(<<L, L, L>>) :
                    LET t == <<c[1], c[2], c[3], label_vocab.id[quals[q].label]>>
                    IN  InCuboid(returned, quals[q], t) =>
                            Occurrences(t) = Cardinality(Owners(t))
            /\ NoSharedTriple(returned) => ~RepeatedCoordinate(cube.entries)

C8_Witness ==
    /\ fpc = "done"
    /\ Len(returned.qualifierMentions) = 2
    /\ returned.qualifierMentions[1].label # returned.qualifierMentions[2].label
    /\ NoSharedTriple(returned)
    /\ Len(returned.quintupletMatrix.entries) >= 5
    /\ ~RepeatedCoordinate(returned.quintupletMatrix.entries)

(***************************************************************************)
(* add_joint_label on offsets as a data file may carry them: the start may *)
(* be negative or not below the end, the end may pass the sentence.        *)
(***************************************************************************)
AnyOffsets(n) == (-1 .. n) \X (0 .. n + 1)

InitFillAny ==
    /\ CubeIdle
    /\ BioIdle
    /\ SoftIdle
    /\ PrepIdle
    /\ RecIdle
    /\ \E n \in AnyLens, k \in AnyEntCounts :
         \E f \in [1 .. k -> AnyOffsets(n)] :
            \E rels \in {<<>>} \cup
                    {<<Relation(a, b, "r1")>> : a, b \in 1 .. k} :
                \E quals \in {<<>>} \cup
                        {<<Qualifier(a, b, c, "q1")>> : a, b, c \in 1 .. k} :
                    FillStart(Sentence(Tokens(n),
                                  [e \in 1 .. k |-> Entity(e, f[e], "Entity")],
                                  rels, quals))

\* the call ends where an IndexError is raised
NextFillAny == FillInit \/ EntStep \/ RelStep \/ QualStep \/ FillFinish

SpecFillAny == InitFillAny /\ [][NextFillAny]_vars

\* start >= end, start < 0 or end > seq_len
MalformedOffset(offset, n) ==
    offset[1] >= offset[2] \/ offset[1] < 0 \/ offset[2] > n

\* C14: add_joint_label ends with an error whenever an entity of the
\* sentence has an offset with start >= end, start < 0 or end > seq_len: it
\* returns nothing and stores no grid, so it never skips the fill, wraps the
\* index or emits a cube entry outside (L, L, L).
C14_MalformedOffsetRaises ==
    (/\ fpc \notin {"call", "fill"}
     /\ \E e \in 1 .. Len(sent.entityMentions) :
           MalformedOffset(sent.entityMentions[e].offset, SeqLen(sent))) =>
        /\ fpc = "IndexError"
        /\ returned = NoSentence
        /\ sent.jointLabelMatrix = <<>>

(***************************************************************************)
(* BioEncoder: spans (start, end, label) to and from B-/I-/O tags.  A tag  *)
(* and a label are strings, modelled as sequences of characters.           *)
(***************************************************************************)
\* "O", "I-" + label, "B-" + label
TagO == <<"O">>

TagI(label) == <<"I", "-">> \o label

TagB(label) == <<"B", "-">> \o label

\* t.startswith(c)
StartsWith(t, c) == Len(t) >= 1 /\ t[1] = c

\* t.split("-", maxsplit=1)[1]: what follows the first "-"
AfterFirstDash(t) ==
    LET d == CHOOSE n \in 1 .. Len(t) :
                 t[n] = "-" /\ \A m \in 1 .. n - 1 : t[m] # "-"
    IN  SubSeq(t, d + 1, Len(t))

\* for i in range(start, end): tags[i] = "I-" + label; tags[start] = "B-" + label
\* (tags as a function over 0 .. length - 1)
TagSpan(t, n, span) ==
    [p \in DOMAIN t |->
        IF p = PyIndex(span[1], n) THEN TagB(span[3])
        ELSE IF \E i \in span[1] .. span[2] - 1 : p = PyIndex(i, n)
             THEN TagI(span[3])
        ELSE t[p]]

\* whether an index of range(start, end) falls outside the list
OutOfRange(n, span) ==
    \E i \in span[1] .. span[2] - 1 : PyIndex(i, n) \notin 0 .. n - 1

\* the loop of BioEncoder.run over spans[from ..]: the tags, or the error
\* that ends the call
RECURSIVE RunLoop(_, _, _, _)
RunLoop(t, n, sps, from) ==
    IF from > Len(sps) THEN [error |-> "", tags |-> t]
    ELSE LET span == sps[from]
         IN  IF ~(span[1] < span[2]) \/ ~(span[2] <= n)
             THEN [error |-> "AssertionError", tags |-> <<>>]
             ELSE IF OutOfRange(n, span)
             THEN [error |-> "IndexError", tags |-> <<>>]
             ELSE RunLoop(TagSpan(t, n, span), n, sps, from + 1)

\* BioEncoder.run that never writes the B tag
runNoBegin(sps, n) ==
    LET r == RunLoop([p \in 0 .. n - 1 |-> TagO], n, sps, 1)
    IN  IF r.error # "" THEN r
        ELSE [error |-> "",
              tags |-> [p \in 1 .. n |->
                          IF StartsWith(r.tags[p - 1], "B")
                          THEN <<"I">> \o Tail(r.tags[p - 1])
                          ELSE r.tags[p - 1]]]

\* BioEncoder.run that goes through the spans from the last to the first
runReversed(sps, n) ==
    LET rev == [a \in 1 .. Len(sps) |-> sps[Len(sps) + 1 - a]]
        r == RunLoop([p \in 0 .. n - 1 |-> TagO], n, rev, 1)
    IN  IF r.error # "" THEN r
        ELSE [error |-> "", tags |-> [p \in 1 .. n |-> r.tags[p - 1]]]

\* BioEncoder.run that skips the spans its asserts would reject
runSkipping(sps, n) ==
    LET kept == SelectSeq(sps, LAMBDA sp : sp[1] < sp[2] /\ sp[2] <= n)
        r == RunLoop([p \in 0 .. n - 1 |-> TagO], n, kept, 1)
    IN  IF r.error # "" THEN r
        ELSE [error |-> "", tags |-> [p \in 1 .. n |-> r.tags[p - 1]]]

\* BioEncoder.run: the list of tags (1-based here), or the error
run(sps, n) ==
    LET r == RunLoop([p \in 0 .. n - 1 |-> TagO], n, sps, 1)
    IN  IF r.error # "" THEN r
        ELSE [error |-> "", tags |-> [p \in 1 .. n |-> r.tags[p - 1]]]

\* the first loop of BioEncoder.decode: the lists of positions (0-based);
\* its assert t[0] in "BIO" passes on every tag BioEncoder.run writes
RECURSIVE DecodeParts(_, _, _)
DecodeParts(tgs, p, parts) ==
    IF p > Len(tgs) THEN parts
    ELSE LET t == tgs[p]
             opened == IF StartsWith(t, "B") THEN Append(parts, <<p - 1>>)
                       ELSE parts
             extended ==
                 IF Len(opened) > 0 /\ StartsWith(t, "I")
                 THEN [opened EXCEPT ![Len(opened)] = Append(@, p - 1)]
                 ELSE opened
         IN  DecodeParts(tgs, p + 1, extended)

Min(S) == CHOOSE a \in S : \A b \in S : a <= b

Max(S) == CHOOSE a \in S : \A b \in S : b <= a

\* the second loop of BioEncoder.decode: one span per list of positions
PartSpan(tgs, indices) ==
    LET start == Min(Range(indices))
        end == Max(Range(indices)) + 1
    IN  <<start, end, AfterFirstDash(tgs[start + 1])>>

\* BioEncoder.decode that lets a B tag continue a span of the same label
decodeMerging(tgs) ==
    LET glued == [p \in 1 .. Len(tgs) |->
                    IF /\ p > 1
                       /\ StartsWith(tgs[p], "B")
                       /\ ~StartsWith(tgs[p - 1], "O")
                       /\ AfterFirstDash(tgs[p - 1]) = AfterFirstDash(tgs[p])
                    THEN <<"I">> \o Tail(tgs[p])
                    ELSE tgs[p]]
        parts == DecodeParts(glued, 1, <<>>)
    IN  [n \in 1 .. Len(parts) |-> PartSpan(tgs, parts[n])]

\* BioEncoder.decode
decode(tgs) ==
    LET parts == DecodeParts(tgs, 1, <<>>)
    IN  [n \in 1 .. Len(parts) |-> PartSpan(tgs, parts[n])]

\* tags = encoder.run(spans, length)
Run ==
    /\ bpc = "call"
    /\ LET r == run(spans, length)
       IN  /\ tags' = r.tags
           /\ bpc' = IF r.error = "" THEN "encoded" ELSE r.error
    /\ UNCHANGED <<spans, length, preds>>
    /\ UNCHANGED cubeVars
    /\ UNCHANGED fillVars
    /\ UNCHANGED softVars
    /\ UNCHANGED prepVars
    /\ UNCHANGED recVars

\* preds = encoder.decode(tags)
Decode ==
    /\ bpc = "encoded"
    /\ preds' = decode(tags)
    /\ bpc' = "decoded"
    /\ UNCHANGED <<spans, length, tags>>
    /\ UNCHANGED cubeVars
    /\ UNCHANGED fillVars
    /\ UNCHANGED softVars
    /\ UNCHANGED prepVars
    /\ UNCHANGED recVars

\* spans with start < end <= n that begin at a token of the sequence
WellFormedSpans(n) ==
    {sp \in (0 .. n - 1) \X (1 .. n) \X BioLabels : sp[1] < sp[2]}

\* spans as a caller may write them: the start may be negative or not below
\* the end, the end may pass the length
AnySpans(n) == (-1 .. n) \X (0 .. n + 1) \X BioLabels

InitBio ==
    /\ CubeIdle
    /\ FillIdle
    /\ SoftIdle
    /\ PrepIdle
    /\ RecIdle
    /\ bpc = "call"
    /\ length \in 0 .. MaxLength
    /\ spans \in SeqsUpTo(WellFormedSpans(length), MaxSpans)
                    \cup SeqsUpTo(AnySpans(length), MaxAnySpans)
    /\ tags = <<>>
    /\ preds = <<>>

NextBio == Run \/ Decode

SpecBio == InitBio /\ [][NextBio]_vars

(***************************************************************************)
(* BioEncoder.decode on tag sequences a caller wrote.                      *)
(***************************************************************************)
\* the error that ends BioEncoder.decode, "" if it returns: t[0] of an empty
\* tag and split(...)[1] of a B tag without "-" raise IndexError, the assert
\* raises AssertionError; the first loop ends before the second begins
decodeError(tgs) ==
    LET bad == {p \in 1 .. Len(tgs) :
                   Len(tgs[p]) = 0 \/ tgs[p][1] \notin {"B", "I", "O"}}
    IN  IF bad # {}
        THEN IF Len(tgs[Min(bad)]) = 0 THEN "IndexError"
             ELSE "AssertionError"
        ELSE IF \E p \in 1 .. Len(tgs) :
                    /\ StartsWith(tgs[p], "B")
                    /\ \A m \in 1 .. Len(tgs[p]) : tgs[p][m] # "-"
             THEN "IndexError"
        ELSE ""

\* preds = encoder.decode(tags), tags as given
DecodeGiven ==
    /\ bpc = "given"
    /\ LET e == decodeError(tags)
       IN  /\ bpc' = IF e = "" THEN "decoded" ELSE e
           /\ preds' = IF e = "" THEN decode(tags) ELSE <<>>
    /\ UNCHANGED <<spans, length, tags>>
    /\ UNCHANGED cubeVars
    /\ UNCHANGED fillVars
    /\ UNCHANGED softVars
    /\ UNCHANGED prepVars
    /\ UNCHANGED recVars

\* the tags BioEncoder.run writes
BioTags ==
    {TagO} \cup {TagB(l) : l \in BioLabels} \cup {TagI(l) : l \in BioLabels}

\* strings that are no such tag: the empty one, one that starts with none
\* of B, I, O, and a B without a label
OtherTags == {<<>>, <<"X">>, <<"B">>}

InitDecode ==
    /\ CubeIdle
    /\ FillIdle
    /\ SoftIdle
    /\ PrepIdle
    /\ RecIdle
    /\ bpc = "given"
    /\ spans = <<>>
    /\ length = 0
    /\ tags \in SeqsUpTo(BioTags \cup OtherTags, MaxTags)
    /\ preds = <<>>

NextDecode == DecodeGiven

SpecDecode == InitDecode /\ [][NextDecode]_vars

(***************************************************************************)
(* Properties of the BIO codec.                                            *)
(***************************************************************************)
WithinLength(sps, n) ==
    \A a \in 1 .. Len(sps) : 0 <= sps[a][1] /\ sps[a][1] < sps[a][2] /\ sps[a][2] <= n

NonOverlapping(sps) ==
    \A a, b \in 1 .. Len(sps) :
        a # b => (sps[a][2] <= sps[b][1] \/ sps[b][2] <= sps[a][1])

\* two spans touch (one ends where the other starts) and carry one label
AdjacentSameLabel(sps) ==
    \E a, b \in 1 .. Len(sps) : sps[a][2] = sps[b][1] /\ sps[a][3] = sps[b][3]

SortedByStart(sps) ==
    \A a, b \in 1 .. Len(sps) : a < b => sps[a][1] <= sps[b][1]

\* C9: for spans within [0, L) that are pairwise non-overlapping and of
\* which no two adjacent ones carry the same label, given in any order,
\* decode(run(S, L)) returns exactly the spans of S, each once.
C9_RoundTripAsSet ==
    (/\ bpc = "decoded"
     /\ WithinLength(spans, length)
     /\ NonOverlapping(spans)
     /\ ~AdjacentSameLabel(spans)) =>
        /\ Range(preds) = Range(spans)
        /\ Len(preds) = Len(spans)

C9_Witness ==
    /\ bpc = "decoded"
    /\ Len(spans) = 3
    /\ WithinLength(spans, length)
    /\ NonOverlapping(spans)
    /\ ~AdjacentSameLabel(spans)
    /\ spans[1][1] > spans[2][1]
    /\ spans[1][2] = spans[3][1]
    /\ preds # spans
    /\ Range(preds) = Range(spans)

\* C10: for a list of spans sorted by start, pairwise non-overlapping and
\* within [0, L), adjacent spans of one label included,
\* decode(run(spans, L)) returns the identical list in the identical order.
C10_RoundTripSortedList ==
    (/\ bpc = "decoded"
     /\ WithinLength(spans, length)
     /\ NonOverlapping(spans)
     /\ SortedByStart(spans)) => preds = spans

C10_Witness ==
    /\ bpc = "decoded"
    /\ Len(spans) = 2
    /\ WithinLength(spans, length)
    /\ SortedByStart(spans)
    /\ spans[1][2] = spans[2][1]
    /\ spans[1][3] = spans[2][3]
    /\ spans[1][2] - spans[1][1] = 2
    /\ preds = spans

\* the spans of the list that cover position p, by their place in the list
CoveringSpans(sps, p) ==
    {a \in 1 .. Len(sps) : sps[a][1] <= p /\ p < sps[a][2]}

\* C11: BioEncoder.run(spans, L), for spans over token positions, returns
\* exactly L tags; tag p is "O" if no span covers p, and otherwise it is the
\* tag the last span of the list that covers p leaves there: "B-" + label
\* at that span's start, "I-" + label elsewhere.
C11_OrderedOverwrite ==
    (bpc \in {"encoded", "decoded"} /\ WithinLength(spans, length)) =>
        /\ Len(tags) = length
        /\ \A p \in 0 .. length - 1 :
              LET cov == CoveringSpans(spans, p)
              IN  IF cov = {} THEN tags[p + 1] = TagO
                  ELSE LET last == spans[Max(cov)]
                       IN  tags[p + 1] = IF p = last[1] THEN TagB(last[3])
                                         ELSE TagI(last[3])

C11_Witness ==
    /\ bpc = "encoded"
    /\ Len(spans) = 2
    /\ WithinLength(spans, length)
    /\ spans[1][3] # spans[2][3]
    /\ spans[2][1] < spans[1][1]
    /\ spans[1][1] < spans[2][2]
    /\ spans[2][2] < spans[1][2]
    /\ tags[spans[1][1] + 1] = TagI(spans[2][3])
    /\ tags[spans[1][2]] = TagI(spans[1][3])

\* the spans a left-to-right scan gives when a span is the B tag and the I
\* tags directly after it, closed by the next B or O tag or the end
ClosedSpans(tgs) ==
    LET opens == SelectSeq([p \in 1 .. Len(tgs) |-> p],
                           LAMBDA p : StartsWith(tgs[p], "B"))
        close(p) == Min({q \in p + 1 .. Len(tgs) + 1 :
                           q = Len(tgs) + 1 \/ ~StartsWith(tgs[q], "I")})
    IN  [n \in 1 .. Len(opens) |->
            <<opens[n] - 1, close(opens[n]) - 1, AfterFirstDash(tgs[opens[n]])>>]

\* C12: on every sequence of B-/I-/O tags BioEncoder.decode returns one
\* span per B tag, left to right, made of that B position and the I tags
\* directly after it, labelled from the B tag; the next B or O tag or the
\* end closes the span, and I tags with no B directly before their run are
\* dropped.
C12_DecodeContiguous ==
    (bpc = "decoded" /\ Range(tags) \subseteq BioTags) =>
        preds = ClosedSpans(tags)

\* malformed for BioEncoder.run: start >= end or end > length
Malformed(span, n) == span[1] >= span[2] \/ span[2] > n

\* C13: BioEncoder.run ends with an error and returns no tag list whenever
\* some span of its input has start >= end or end > length.
C13_MalformedSpanRaises ==
    (bpc # "call" /\ \E a \in 1 .. Len(spans) : Malformed(spans[a], length)) =>
        /\ bpc \in {"AssertionError", "IndexError"}
        /\ tags = <<>>
        /\ preds = <<>>

C13_Witness ==
    /\ bpc = "AssertionError"
    /\ Len(spans) = 2
    /\ ~Malformed(spans[1], length)
    /\ spans[1][1] >= 0
    /\ spans[2][2] = length + 1
    /\ spans[2][1] < spans[2][2]

(***************************************************************************)
(* EntRelJointDecoder.soft_joint_decoding.  A joint score array maps a     *)
(* cell (i, j) to its scores, one per label id; a qualifier score array    *)
(* maps a cell (i, j, k) likewise.  Label id c is entry c + 1 of a cell.   *)
(* Scores are softmax outputs in integer units: those of a cell of the     *)
(* joint array add up to 4, those of a cell of the qualifier array to 2,   *)
(* and all are 0 where the mask has cleared the cell.                      *)
(***************************************************************************)
\* the sum of the values of a set of (key, value) pairs
RECURSIVE SetSum(_)
SetSum(S) ==
    IF S = {} THEN 0
    ELSE LET e == CHOOSE e \in S : TRUE
         IN  e[2] + SetSum(S \ {e})

\* a set of integers as the ascending list
RECURSIVE Ascending(_)
Ascending(S) ==
    IF S = {} THEN <<>>
    ELSE <<Min(S)>> \o Ascending(S \ {Min(S)})

\* joint_array[idx][:seq_len, :seq_len, :]
Slice2(a, n) == [c \in (0 .. n - 1) \X (0 .. n - 1) |-> a[c]]

\* q_array[idx][:seq_len, :seq_len, :seq_len, :]
Slice3(a, n) == [c \in (0 .. n - 1) \X (0 .. n - 1) \X (0 .. n - 1) |-> a[c]]

\* the number of label ids of a score array of n tokens
NumLogits(js, n) == Len(js[<<0, 0>>])

\* the square of np.linalg.norm(joint_score_feature[i] -
\* joint_score_feature[i + 1]): the rows i and i + 1 of the array, flattened
SqNormRows(js, n, i) ==
    SetSum({<<(<<j, c>>),
              (js[<<i, j>>][c] - js[<<i + 1, j>>][c])
                  * (js[<<i, j>>][c] - js[<<i + 1, j>>][c])>> :
                j \in 0 .. n - 1, c \in 1 .. NumLogits(js, n)})

\* the same for transposed_joint_score_feature: the columns i and i + 1
SqNormCols(js, n, i) ==
    SetSum({<<(<<j, c>>),
              (js[<<j, i>>][c] - js[<<j, i + 1>>][c])
                  * (js[<<j, i>>][c] - js[<<j, i + 1>>][c])>> :
                j \in 0 .. n - 1, c \in 1 .. NumLogits(js, n)})

\* the comparison turned round: the boundaries are where the threshold
\* exceeds the distance
UnderThreshold(a, b, t) ==
    /\ t >= 0
    /\ LET r == 4 * t * t - a - b
       IN  r > 0 /\ 4 * a * b < r * r

\* (sqrt(a) + sqrt(b)) * 0.5 > t, for the squares a and b of the two norms:
\* sqrt(a) + sqrt(b) > 2t if and only if t < 0, or 2 sqrt(a b) > 4 t^2 - a - b
OverThreshold(a, b, t) ==
    \/ t < 0
    \/ LET r == 4 * t * t - a - b
       IN  r < 0 \/ 4 * a * b > r * r

\* lines 183-198: (... > self.separate_threshold).nonzero()[0]
SeparatePos(js, n, t) ==
    Ascending({i \in 0 .. n - 2 :
                 OverThreshold(SqNormRows(js, n, i), SqNormCols(js, n, i), t)})

\* CandidateSpans without the spans between two boundaries
CandidateSpansEnds(sp, n) ==
    IF Len(sp) > 0
    THEN <<(<<0, sp[1] + 1>>), (<<sp[Len(sp)] + 1, n>>)>>
    ELSE <<(<<0, n>>)>>

\* lines 200-209: the candidate spans, first the two at the ends
CandidateSpans(sp, n) ==
    IF Len(sp) > 0
    THEN <<(<<0, sp[1] + 1>>), (<<sp[Len(sp)] + 1, n>>)>>
            \o [m \in 1 .. Len(sp) - 1 |-> <<sp[m] + 1, sp[m + 1] + 1>>]
    ELSE <<(<<0, n>>)>>

\* range(span[0], span[1]) of a slice span[0] : span[1] within the array
SliceRange(span) == span[1] .. span[2] - 1

\* np.mean(joint_score[a0:a1, b0:b1, :], axis=(0, 1)) by label id, times the
\* number of cells of the region: the same positive factor for every label
\* id, so that max, argmax and < come out as on the means
RegionScore2(js, n, a, b) ==
    [c \in 0 .. NumLogits(js, n) - 1 |->
        SetSum({<<(<<i, j>>), js[<<i, j>>][c + 1]>> :
                  i \in SliceRange(a), j \in SliceRange(b)})]

\* np.mean(q_score[a0:a1, b0:b1, c0:c1, :], axis=(0, 1, 2)), likewise
RegionScore3(qs, n, a, b, v) ==
    [c \in 0 .. Len(qs[<<0, 0, 0>>]) - 1 |->
        SetSum({<<(<<i, j, k>>), qs[<<i, j, k>>][c + 1]>> :
                  i \in SliceRange(a), j \in SliceRange(b),
                  k \in SliceRange(v)})]

\* np.max(score[label])
MaxScore(score, label) == Max({score[label[m]] : m \in 1 .. Len(label)})

\* label[np.argmax(score[label])]: the first label id with the largest score
ArgMaxLabel(score, label) ==
    label[Min({m \in 1 .. Len(label) : score[label[m]] = MaxScore(score, label)})]

\* not (np.max(score[label]) < score[self.none_idx])
Accepted(score, label, none_idx) ==
    ~(MaxScore(score, label) < score[none_idx])

\* self.vocab.get_token_from_index(pred, "ent_rel_id")
LabelNames == <<"None", "Entity", "p", "r">>

get_token_from_index(pred) == LabelNames[pred + 1]

\* d[k] = v on a dict kept as the list of its (key, value) pairs
DictSet(d, k, v) ==
    IF \E m \in 1 .. Len(d) : d[m][1] = k
    THEN [m \in 1 .. Len(d) |-> IF d[m][1] = k THEN <<k, v>> ELSE d[m]]
    ELSE Append(d, <<k, v>>)

RECURSIVE DictSetAll(_, _, _)
DictSetAll(d, kvs, from) ==
    IF from > Len(kvs) THEN d
    ELSE DictSetAll(DictSet(d, kvs[from][1], kvs[from][2]), kvs, from + 1)

Keys(d) == {d[m][1] : m \in 1 .. Len(d)}

\* a dict that is not emptied at the head of the loop
KeptDict(prev) == prev

\* ent_pred = {} (rel_pred, q_pred) at the head of the loop body
NewDict(prev) == <<>>

\* the candidate spans line 216 accepts, in the order of spans
AcceptedSpans(js, n, sps, me) ==
    SelectSeq(sps, LAMBDA sp :
        Accepted(RegionScore2(js, n, sp, sp), me.ent_label, me.none_idx))

\* for ent1 in ents: for ent2 in ents, with no pair skipped
PairsAll(es) ==
    [m \in 1 .. Len(es) * Len(es) |->
        <<es[((m - 1) \div Len(es)) + 1], es[((m - 1) % Len(es)) + 1]>>]

\* for ent1 in ents: for ent2 in ents: if ent1 == ent2: continue
Pairs(es) ==
    SelectSeq([m \in 1 .. Len(es) * Len(es) |->
                  <<es[((m - 1) \div Len(es)) + 1],
                    es[((m - 1) % Len(es)) + 1]>>],
              LAMBDA pr : pr[1] # pr[2])

\* the three loops over ents: if len(set([ent1, ent2, ent3])) < 3: continue
Triples(es) ==
    SelectSeq([m \in 1 .. Len(es) * Len(es) * Len(es) |->
                  <<es[((m - 1) \div (Len(es) * Len(es))) + 1],
                    es[(((m - 1) \div Len(es)) % Len(es)) + 1],
                    es[((m - 1) % Len(es)) + 1]>>],
              LAMBDA tr : ~(Cardinality({tr[1], tr[2], tr[3]}) < 3))

\* the pairs line 230 accepts, with the label of line 231-232
RelItems(js, n, es, me) ==
    LET acc == SelectSeq(Pairs(es), LAMBDA pr :
                   Accepted(RegionScore2(js, n, pr[1], pr[2]),
                            me.rel_label, me.none_idx))
    IN  [m \in 1 .. Len(acc) |->
            <<acc[m], get_token_from_index(ArgMaxLabel(
                          RegionScore2(js, n, acc[m][1], acc[m][2]),
                          me.rel_label))>>]

\* the triples line 250 accepts, with the label of lines 251-254
QualItems(qs, n, es, me) ==
    LET acc == SelectSeq(Triples(es), LAMBDA tr :
                   Accepted(RegionScore3(qs, n, tr[1], tr[2], tr[3]),
                            me.q_label, me.none_idx))
    IN  [m \in 1 .. Len(acc) |->
            <<acc[m], get_token_from_index(ArgMaxLabel(
                          RegionScore3(qs, n, acc[m][1], acc[m][2], acc[m][3]),
                          me.q_label))>>]

\* joint_score and q_score of the sentence the loop is at (lines 177-178)
JointScore == Slice2(batch.joint_array[idx + 1], batch.lens[idx + 1])

QScore == Slice3(batch.q_array[idx + 1], batch.lens[idx + 1])

\* lines 161-171: the output lists; the arrays have equal leading shapes
SoftBegin ==
    /\ spc = "call"
    /\ separate_position_preds' = <<>>
    /\ ent_preds' = <<>>
    /\ rel_preds' = <<>>
    /\ q_preds' = <<>>
    /\ idx' = 0
    /\ spc' = "loop"
    /\ UNCHANGED <<self, batch, separate_pos, soft_spans, soft_ents, ent_pred,
                   rel_pred, q_pred, result>>
    /\ UNCHANGED cubeVars
    /\ UNCHANGED fillVars
    /\ UNCHANGED bioVars
    /\ UNCHANGED prepVars
    /\ UNCHANGED recVars

\* lines 173-209: the head of the loop body, the boundaries and the spans
Separate ==
    /\ spc = "loop"
    /\ idx < Len(batch.lens)
    /\ ent_pred' = NewDict(ent_pred)
    /\ rel_pred' = NewDict(rel_pred)
    /\ q_pred' = NewDict(q_pred)
    /\ separate_pos' =
           SeparatePos(JointScore, batch.lens[idx + 1], self.separate_threshold)
    /\ separate_position_preds' =
           Append(separate_position_preds, separate_pos')
    /\ soft_spans' = CandidateSpans(separate_pos', batch.lens[idx + 1])
    /\ spc' = "ents"
    /\ UNCHANGED <<self, batch, idx, soft_ents, ent_preds, rel_preds, q_preds,
                   result>>
    /\ UNCHANGED cubeVars
    /\ UNCHANGED fillVars
    /\ UNCHANGED bioVars
    /\ UNCHANGED prepVars
    /\ UNCHANGED recVars

\* lines 211-220: the loop over spans; np.max of no scores raises ValueError
EntStage ==
    /\ spc = "ents"
    /\ IF Len(soft_spans) > 0 /\ Len(self.ent_label) = 0
       THEN /\ spc' = "ValueError"
            /\ soft_ents' = <<>>
            /\ UNCHANGED ent_pred
       ELSE LET n == batch.lens[idx + 1]
                acc == AcceptedSpans(JointScore, n, soft_spans, self)
            IN  /\ soft_ents' = acc
                /\ ent_pred' =
                       DictSetAll(ent_pred,
                           [m \in 1 .. Len(acc) |->
                               <<acc[m], get_token_from_index(ArgMaxLabel(
                                   RegionScore2(JointScore, n, acc[m], acc[m]),
                                   self.ent_label))>>], 1)
                /\ spc' = "rels"
    /\ UNCHANGED <<self, batch, idx, separate_pos, soft_spans, rel_pred, q_pred,
                   separate_position_preds, ent_preds, rel_preds, q_preds,
                   result>>
    /\ UNCHANGED cubeVars
    /\ UNCHANGED fillVars
    /\ UNCHANGED bioVars
    /\ UNCHANGED prepVars
    /\ UNCHANGED recVars

\* lines 222-233: the loops over the pairs of ents
RelStage ==
    /\ spc = "rels"
    /\ IF Len(Pairs(soft_ents)) > 0 /\ Len(self.rel_label) = 0
       THEN spc' = "ValueError" /\ UNCHANGED rel_pred
       ELSE /\ rel_pred' =
                   DictSetAll(rel_pred,
                       RelItems(JointScore, batch.lens[idx + 1], soft_ents,
                                self), 1)
            /\ spc' = "quals"
    /\ UNCHANGED <<self, batch, idx, separate_pos, soft_spans, soft_ents,
                   ent_pred, q_pred, separate_position_preds, ent_preds,
                   rel_preds, q_preds, result>>
    /\ UNCHANGED cubeVars
    /\ UNCHANGED fillVars
    /\ UNCHANGED bioVars
    /\ UNCHANGED prepVars
    /\ UNCHANGED recVars

\* lines 235-255: the loops over the triples of ents
QualStage ==
    /\ spc = "quals"
    /\ IF Len(Triples(soft_ents)) > 0 /\ Len(self.q_label) = 0
       THEN spc' = "ValueError" /\ UNCHANGED q_pred
       ELSE /\ q_pred' =
                   DictSetAll(q_pred,
                       QualItems(QScore, batch.lens[idx + 1], soft_ents, self),
                       1)
            /\ spc' = "append"
    /\ UNCHANGED <<self, batch, idx, separate_pos, soft_spans, soft_ents,
                   ent_pred, rel_pred, separate_position_preds, ent_preds,
                   rel_preds, q_preds, result>>
    /\ UNCHANGED cubeVars
    /\ UNCHANGED fillVars
    /\ UNCHANGED bioVars
    /\ UNCHANGED prepVars
    /\ UNCHANGED recVars

\* lines 257-259, and on to the next sentence
AppendPreds ==
    /\ spc = "append"
    /\ ent_preds' = Append(ent_preds, ent_pred)
    /\ rel_preds' = Append(rel_preds, rel_pred)
    /\ q_preds' = Append(q_preds, q_pred)
    /\ idx' = idx + 1
    /\ spc' = "loop"
    /\ UNCHANGED <<self, batch, separate_pos, soft_spans, soft_ents, ent_pred,
                   rel_pred, q_pred, separate_position_preds, result>>
    /\ UNCHANGED cubeVars
    /\ UNCHANGED fillVars
    /\ UNCHANGED bioVars
    /\ UNCHANGED prepVars
    /\ UNCHANGED recVars

\* lines 261-266
SoftReturn ==
    /\ spc = "loop"
    /\ idx = Len(batch.lens)
    /\ result' =
           [separate_position_preds |-> separate_position_preds,
            ent_preds |-> ent_preds,
            rel_preds |-> rel_preds,
            q_preds |-> q_preds]
    /\ spc' = "done"
    /\ UNCHANGED <<self, batch, idx, separate_pos, soft_spans, soft_ents,
                   ent_pred, rel_pred, q_pred, separate_position_preds,
                   ent_preds, rel_preds, q_preds>>
    /\ UNCHANGED cubeVars
    /\ UNCHANGED fillVars
    /\ UNCHANGED bioVars
    /\ UNCHANGED prepVars
    /\ UNCHANGED recVars

NextSoft ==
    \/ SoftBegin
    \/ Separate
    \/ EntStage
    \/ RelStage
    \/ QualStage
    \/ AppendPreds
    \/ SoftReturn

(***************************************************************************)
(* Inputs of the decoder.  The label file is the one make_label_file       *)
(* writes for the relation labels p, r and the qualifier label p: ids      *)
(* None 0, Entity 1, p 2, r 3, and three logits per qualifier cell.        *)
(***************************************************************************)
\* scores of a cell (i, i): None, Entity, or both alike
DiagScores == {<<4, 0, 0, 0>>, <<0, 4, 0, 0>>, <<2, 2, 0, 0>>}

\* scores of a cell (i, j), i # j: None, mostly r, or None and p alike
OffScores == {<<4, 0, 0, 0>>, <<0, 0, 1, 3>>, <<2, 0, 2, 0>>}

\* scores of a qualifier cell: None, p, or both alike
QScores == {<<2, 0, 0>>, <<0, 0, 2>>, <<1, 0, 1>>}

\* a joint score array of n tokens within an array of width: diag on the
\* diagonal, up above it and low below it, 0 beyond the sentence (the mask)
JointArray(n, width, diag, up, low) ==
    [c \in (0 .. width - 1) \X (0 .. width - 1) |->
        IF c[1] >= n \/ c[2] >= n THEN <<0, 0, 0, 0>>
        ELSE IF c[1] = c[2] THEN diag[c[1] + 1]
        ELSE IF c[1] < c[2] THEN up
        ELSE low]

\* a qualifier score array: qa where the head precedes the tail, else qb
QArray(n, width, qa, qb) ==
    [c \in (0 .. width - 1) \X (0 .. width - 1) \X (0 .. width - 1) |->
        IF c[1] >= n \/ c[2] >= n \/ c[3] >= n THEN <<0, 0, 0>>
        ELSE IF c[1] < c[2] THEN qa
        ELSE qb]

\* lines 36 and 92-95: the fields __init__ takes from cfg and the label file
Decoder(threshold, ent_label, rel_label, q_label) ==
    [separate_threshold |-> threshold, none_idx |-> 0,
     ent_label |-> ent_label, rel_label |-> rel_label, q_label |-> q_label]

\* entity, relation and qualifier of the label file
EntityIds == <<1>>
RelationIds == <<2, 3>>
QualifierIds == <<2>>

SoftStart(me, b) ==
    /\ spc = "call"
    /\ self = me
    /\ batch = b
    /\ idx = 0
    /\ separate_pos = <<>>
    /\ soft_spans = <<>>
    /\ soft_ents = <<>>
    /\ ent_pred = <<>>
    /\ rel_pred = <<>>
    /\ q_pred = <<>>
    /\ separate_position_preds = <<>>
    /\ ent_preds = <<>>
    /\ rel_preds = <<>>
    /\ q_preds = <<>>
    /\ result = NoResult

\* one sentence
InitSoft ==
    /\ CubeIdle
    /\ FillIdle
    /\ BioIdle
    /\ PrepIdle
    /\ RecIdle
    /\ \E t \in SoftThresholds, n \in SoftLens :
         \E diag \in [1 .. n -> DiagScores], up, low \in OffScores,
            qa, qb \in QScores :
             SoftStart(Decoder(t, EntityIds, RelationIds, QualifierIds),
                       [joint_array |-> <<JointArray(n, n, diag, up, low)>>,
                        q_array |-> <<QArray(n, n, qa, qb)>>,
                        lens |-> <<n>>])

SpecSoft == InitSoft /\ [][NextSoft]_vars

(***************************************************************************)
(* Properties of the decoder.                                              *)
(***************************************************************************)
\* the loop is within the body for sentence idx, past the boundaries
InSentence == spc \in {"ents", "rels", "quals", "append"}

\* C15: for a sentence of length L >= 1 the candidate spans are non-empty
\* half-open intervals within [0, L), pairwise disjoint, with union [0, L),
\* one more than there are boundaries; with no boundary the only span is
\* (0, L).
C15_SpansPartition ==
    InSentence =>
        LET L == batch.lens[idx + 1]
        IN  /\ \A a \in 1 .. Len(soft_spans) :
                  /\ 0 <= soft_spans[a][1]
                  /\ soft_spans[a][1] < soft_spans[a][2]
                  /\ soft_spans[a][2] <= L
            /\ \A a, b \in 1 .. Len(soft_spans) :
                  a # b => SliceRange(soft_spans[a])
                               \cap SliceRange(soft_spans[b]) = {}
            /\ UNION {SliceRange(soft_spans[a]) : a \in 1 .. Len(soft_spans)}
                   = 0 .. L - 1
            /\ Len(soft_spans) = Len(separate_pos) + 1
            /\ Len(separate_pos) = 0 => soft_spans = <<(<<0, L>>)>>

C15_Witness ==
    /\ spc = "ents"
    /\ batch.lens[idx + 1] = 3
    /\ separate_pos = <<0, 1>>
    /\ soft_spans = <<(<<0, 1>>), (<<2, 3>>), (<<1, 2>>)>>

\* C16: a candidate span, an ordered pair and an ordered triple of accepted
\* spans is given a label only if the largest averaged score among the
\* entity (relation, qualifier) label ids is strictly greater than the
\* averaged None score, and the label is then the arg-max one.
C16_StrictlyAboveNone ==
    spc \in {"append"} =>
        LET n == batch.lens[idx + 1]
        IN  /\ \A m \in 1 .. Len(ent_pred) :
                  LET score == RegionScore2(JointScore, n, ent_pred[m][1],
                                            ent_pred[m][1])
                  IN  /\ MaxScore(score, self.ent_label) > score[self.none_idx]
                      /\ ent_pred[m][2] = get_token_from_index(
                             ArgMaxLabel(score, self.ent_label))
            /\ \A m \in 1 .. Len(rel_pred) :
                  LET score == RegionScore2(JointScore, n, rel_pred[m][1][1],
                                            rel_pred[m][1][2])
                  IN  /\ MaxScore(score, self.rel_label) > score[self.none_idx]
                      /\ rel_pred[m][2] = get_token_from_index(
                             ArgMaxLabel(score, self.rel_label))
            /\ \A m \in 1 .. Len(q_pred) :
                  LET score == RegionScore3(QScore, n, q_pred[m][1][1],
                                            q_pred[m][1][2], q_pred[m][1][3])
                  IN  /\ MaxScore(score, self.q_label) > score[self.none_idx]
                      /\ q_pred[m][2] = get_token_from_index(
                             ArgMaxLabel(score, self.q_label))

\* C17: in the output, each key of a sentence's relation map is a pair of
\* two distinct keys of its entity map and each key of its qualifier map a
\* triple of three pairwise distinct keys of its entity map; whether a pair
\* is a key depends on the scores of its own rectangle only, so (e1, e2)
\* and (e2, e1) are present or absent independently.
C17_KeysAreEntities ==
    spc = "done" =>
        \A s \in 1 .. Len(result.ent_preds) :
            LET es == Keys(result.ent_preds[s])
                n == batch.lens[s]
                js == Slice2(batch.joint_array[s], n)
            IN  /\ \A k \in Keys(result.rel_preds[s]) :
                      k[1] \in es /\ k[2] \in es /\ k[1] # k[2]
                /\ \A k \in Keys(result.q_preds[s]) :
                      /\ {k[1], k[2], k[3]} \subseteq es
                      /\ Cardinality({k[1], k[2], k[3]}) = 3
                /\ \A e1, e2 \in es :
                      e1 # e2 =>
                          (<<e1, e2>> \in Keys(result.rel_preds[s]) <=>
                              Accepted(RegionScore2(js, n, e1, e2),
                                       self.rel_label, self.none_idx))

C17_Witness ==
    /\ spc = "done"
    /\ Cardinality(Keys(result.ent_preds[1])) = 3
    /\ \E k \in Keys(result.rel_preds[1]) :
          <<k[2], k[1]>> \notin Keys(result.rel_preds[1])
    /\ \E k \in Keys(result.q_preds[1]) :
          <<k[2], k[1], k[3]>> \notin Keys(result.q_preds[1])

\* C18: for fixed scores and sentence length the boundaries found at a
\* higher separate_threshold are among those found at any lower one.
C18_ThresholdMonotone ==
    InSentence =>
        \A t \in 0 .. MaxThreshold :
            LET at == Range(SeparatePos(JointScore, batch.lens[idx + 1], t))
            IN  /\ t >= self.separate_threshold => at \subseteq Range(separate_pos)
                /\ t <= self.separate_threshold => Range(separate_pos) \subseteq at

C18_Witness ==
    /\ spc = "ents"
    /\ self.separate_threshold = 4
    /\ Len(separate_pos) = 1
    /\ Len(SeparatePos(JointScore, batch.lens[idx + 1], 0)) = 2
    /\ Len(SeparatePos(JointScore, batch.lens[idx + 1], MaxThreshold)) = 0

(***************************************************************************)
(* A batch of sentences: the arrays are as wide as the longest sentence.   *)
(***************************************************************************)
\* a sentence's length and scores; below the diagonal the scores are None
BatchSentences ==
    UNION {{[n |-> n, diag |-> diag, up |-> up] :
              diag \in [1 .. n -> DiagScores], up \in OffScores} :
           n \in BatchLens}

\* the arguments for a list of sentences
BatchOf(ss) ==
    LET width == Max({ss[m].n : m \in 1 .. Len(ss)})
    IN  [joint_array |->
             [m \in 1 .. Len(ss) |->
                 JointArray(ss[m].n, width, ss[m].diag, ss[m].up,
                            <<4, 0, 0, 0>>)],
         q_array |->
             [m \in 1 .. Len(ss) |->
                 QArray(ss[m].n, width, <<2, 0, 0>>, <<2, 0, 0>>)],
         lens |-> [m \in 1 .. Len(ss) |-> ss[m].n]]

InitSoftBatch ==
    /\ CubeIdle
    /\ FillIdle
    /\ BioIdle
    /\ PrepIdle
    /\ RecIdle
    /\ \E t \in SoftThresholds, size \in BatchSizes :
         \E ss \in [1 .. size -> BatchSentences] :
             SoftStart(Decoder(t, EntityIds, RelationIds, QualifierIds),
                       BatchOf(ss))

SpecSoftBatch == InitSoftBatch /\ [][NextSoft]_vars

\* what the loop body yields for scores js and qs of a sentence of length n
\* when it starts from empty maps
AloneSpans(js, n, me) ==
    CandidateSpans(SeparatePos(js, n, me.separate_threshold), n)

AloneEnts(js, n, me) == AcceptedSpans(js, n, AloneSpans(js, n, me), me)

AloneEntPred(js, n, me) ==
    LET acc == AloneEnts(js, n, me)
    IN  DictSetAll(<<>>,
            [m \in 1 .. Len(acc) |->
                <<acc[m], get_token_from_index(ArgMaxLabel(
                    RegionScore2(js, n, acc[m], acc[m]), me.ent_label))>>], 1)

AloneRelPred(js, n, me) ==
    DictSetAll(<<>>, RelItems(js, n, AloneEnts(js, n, me), me), 1)

AloneQPred(js, qs, n, me) ==
    DictSetAll(<<>>, QualItems(qs, n, AloneEnts(js, n, me), me), 1)

\* C19: soft_joint_decoding returns one result per sentence, in input
\* order, and the boundaries and the three maps of sentence s are those its
\* own score slices, its length, the threshold and the label lists give,
\* whatever the other sentences of the batch and their order.
C19_PerSentence ==
    spc = "done" =>
        /\ Len(result.separate_position_preds) = Len(batch.lens)
        /\ Len(result.ent_preds) = Len(batch.lens)
        /\ Len(result.rel_preds) = Len(batch.lens)
        /\ Len(result.q_preds) = Len(batch.lens)
        /\ \A s \in 1 .. Len(batch.lens) :
              LET n == batch.lens[s]
                  js == Slice2(batch.joint_array[s], n)
                  qs == Slice3(batch.q_array[s], n)
              IN  /\ result.separate_position_preds[s] =
                         SeparatePos(js, n, self.separate_threshold)
                  /\ result.ent_preds[s] = AloneEntPred(js, n, self)
                  /\ result.rel_preds[s] = AloneRelPred(js, n, self)
                  /\ result.q_preds[s] = AloneQPred(js, qs, n, self)

C19_Witness ==
    /\ spc = "done"
    /\ batch.lens = <<2, 1>>
    /\ Len(result.ent_preds[1]) = 2
    /\ Len(result.rel_preds[1]) = 1
    /\ Len(result.ent_preds[2]) = 1
    /\ Len(result.rel_preds[2]) = 0
    /\ result.separate_position_preds = <<(<<0>>), <<>>>>

(***************************************************************************)
(* A decoder whose label file leaves one of the three label lists empty.   *)
(***************************************************************************)
\* the label lists as the label file gives them, and with one list empty
LabelLists ==
    {<<EntityIds, RelationIds, QualifierIds>>,
     <<(<<>>), RelationIds, QualifierIds>>,
     <<EntityIds, <<>>, QualifierIds>>,
     <<EntityIds, RelationIds, <<>>>>}

InitSoftConfig ==
    /\ CubeIdle
    /\ FillIdle
    /\ BioIdle
    /\ PrepIdle
    /\ RecIdle
    /\ \E t \in SoftThresholds, n \in ConfigLens, ll \in LabelLists :
         \E diag \in [1 .. n -> DiagScores], off \in OffScores, qa \in QScores :
             SoftStart(Decoder(t, ll[1], ll[2], ll[3]),
                       [joint_array |-> <<JointArray(n, n, diag, off, off)>>,
                        q_array |-> <<QArray(n, n, qa, qa)>>,
                        lens |-> <<n>>])

SpecSoftConfig == InitSoftConfig /\ [][NextSoft]_vars

\* the entity, relation or qualifier label list is empty
Misconfigured ==
    Len(self.ent_label) = 0 \/ Len(self.rel_label) = 0 \/ Len(self.q_label) = 0

\* C20: with an empty entity, relation or qualifier label list
\* soft_joint_decoding ends with an error before boundary detection or any
\* extraction has run for any sentence, and never returns.
C20_EmptyLabelListRaises ==
    Misconfigured =>
        /\ spc \notin {"ents", "rels", "quals", "append", "done"}
        /\ separate_position_preds = <<>>
        /\ result = NoResult

(***************************************************************************)
(* Further properties of the encoder.                                      *)
(***************************************************************************)
\* C21: add_joint_label is free of side effects: no step of the call
\* changes the sentence record the caller passed in, and the grids reach
\* the caller through the return value only.
C21_SentUnchanged == [][sent' = sent]_vars

\* the diagonal of the returned grid tells which tokens lie in an entity
DiagonalIsCoverage ==
    LET L == SeqLen(returned)
        ents == returned.entityMentions
    IN  \A i \in 0 .. L - 1 :
            returned.jointLabelMatrix[<<i, i>>] =
                IF \E e \in 1 .. Len(ents) : Covers(ents[e].offset, i)
                THEN label_vocab.id["Entity"]
                ELSE label_vocab.id["None"]

\* the head and the tail of some relation have a token in common
HeadMeetsTail(s) ==
    \E r \in 1 .. Len(s.relationMentions) :
        TokenRange(SpanOf(s, s.relationMentions[r].em1Id))
            \cap TokenRange(SpanOf(s, s.relationMentions[r].em2Id)) # {}

FlatQuintuplet(tokens, head, tail, value, relation, qualifier) ==
    [tokens |-> tokens, head |-> head, tail |-> tail, value |-> value,
     relation |-> relation, qualifier |-> qualifier]

\* list(d.values()) of a dict kept as the list of its (key, value) pairs
DictValues(d) == [m \in 1 .. Len(d) |-> d[m][2]]

\* the keys of groups in insertion order: the texts by first occurrence
GroupTexts(qs) ==
    LET groups == DictSetAll(<<>>, [m \in 1 .. Len(qs) |-> <<qs[m].tokens, m>>], 1)
    IN  [m \in 1 .. Len(groups) |-> groups[m][1]]

\* [q.head, q.tail, q.value] of every q in lst, in the order of the loops
GroupSpans(lst) ==
    [m \in 1 .. 3 * Len(lst) |->
        LET q == lst[((m - 1) \div 3) + 1]
        IN  CASE (m - 1) % 3 = 0 -> q.head
              [] (m - 1) % 3 = 1 -> q.tail
              [] OTHER -> q.value]

\* the sentence of one group: emId is str(span), one to one with the span
GroupSentence(lst) ==
    LET sps == GroupSpans(lst)
        span_to_entity ==
            DictSetAll(<<>>, [m \in 1 .. Len(sps) |->
                                 <<sps[m], Entity(sps[m], sps[m], "Entity")>>], 1)
        pair_to_relation ==
            DictSetAll(<<>>, [m \in 1 .. Len(lst) |->
                                 <<(<<lst[m].head, lst[m].tail>>),
                                   Relation(lst[m].head, lst[m].tail,
                                            lst[m].relation)>>], 1)
        triplet_to_qualifier ==
            DictSetAll(<<>>, [m \in 1 .. Len(lst) |->
                                 <<(<<lst[m].head, lst[m].tail, lst[m].value>>),
                                   Qualifier(lst[m].head, lst[m].tail,
                                             lst[m].value, lst[m].qualifier)>>], 1)
    IN  Sentence(lst[1].tokens, DictValues(span_to_entity),
                 DictValues(pair_to_relation), DictValues(triplet_to_qualifier))

make_sentences(qs) ==
    LET texts == GroupTexts(qs)
    IN  [g \in 1 .. Len(texts) |->
            GroupSentence(SelectSeq(qs, LAMBDA q : q.tokens = texts[g]))]

\* the label names of the data, in the order sorted() gives them
LabelOrder == <<"p", "q", "r">>

\* sorted(S) for a set of label names
Sorted(S) == SelectSeq(LabelOrder, LAMBDA n : n \in S)

\* set(r.label for s in sents for r in s.relationMentions)
RelationNames(sents) ==
    UNION {{sents[n].relationMentions[r].label :
                r \in 1 .. Len(sents[n].relationMentions)} :
           n \in 1 .. Len(sents)}

\* set(q.label for s in sents for q in s.qualifierMentions)
QualifierNames(sents) ==
    UNION {{sents[n].qualifierMentions[r].label :
                r \in 1 .. Len(sents[n].qualifierMentions)} :
           n \in 1 .. Len(sents)}

\* labels that puts the relations before the qualifiers
LabelListRelationsFirst(relations_, qualifiers_) ==
    <<"None", "Entity">> \o Sorted(Range(relations_) \ Range(qualifiers_))
        \o qualifiers_

\* labels that starts at "Entity"
LabelListNoNone(relations_, qualifiers_) ==
    <<"Entity">> \o qualifiers_
        \o Sorted(Range(relations_) \ Range(qualifiers_))

\* labels = ["None", "Entity"] + qualifiers + sorted(set(relations) - set(qualifiers))
LabelList(relations_, qualifiers_) ==
    <<"None", "Entity">> \o qualifiers_
        \o Sorted(Range(relations_) \ Range(qualifiers_))

\* {name: i for i, name in enumerate(labels)}: the last index of a name stays
IdMap(names) ==
    [name \in Range(names) |->
        (CHOOSE n \in 1 .. Len(names) :
            /\ names[n] = name
            /\ \A later \in n + 1 .. Len(names) : names[later] # name) - 1]

\* entity that lists the None id too
EntityListWithNone(ids) == <<ids["None"], ids["Entity"]>>

\* entity=[label_map["Entity"]]
EntityList(ids) == <<ids["Entity"]>>

make_label_file(sents) ==
    LET relations_ == Sorted(RelationNames(sents))
        qualifiers_ == Sorted(QualifierNames(sents))
        ids == IdMap(LabelList(relations_, qualifiers_))
    IN  [id |-> ids,
         symmetric |-> <<>>,
         asymmetric |-> <<>>,
         entity |-> EntityList(ids),
         relation |-> [n \in 1 .. Len(relations_) |-> ids[relations_[n]]],
         qualifier |-> [n \in 1 .. Len(qualifiers_) |-> ids[qualifiers_[n]]],
         q_num_logits |-> Len(qualifiers_) + 2]

\* a label name of the data as the string of its characters
Chars(name) == <<name>>

\* sorted(set(tags)): every "B-" tag sorts before every "I-" tag
TagList(names) ==
    [n \in 1 .. Len(names) |-> TagB(Chars(names[n]))]
        \o [n \in 1 .. Len(names) |-> TagI(Chars(names[n]))]

make_tag_label_file(sents) ==
    LET qualifiers_ == Sorted(QualifierNames(sents))
        tag_list == TagList(qualifiers_)
        names == <<TagO>> \o tag_list
                     \o [n \in 1 .. Len(qualifiers_) |-> Chars(qualifiers_[n])]
    IN  [id |-> IdMap(names), q_num_logits |-> Len(tag_list) + 1]

\* process_many: make_sentences, lines 247-304
MakeSentences ==
    /\ ppc = "load"
    /\ sentences' = make_sentences(quintuplets)
    /\ ppc' = "sentences"
    /\ UNCHANGED <<quintuplets, info, tag_info>>
    /\ UNCHANGED cubeVars
    /\ UNCHANGED fillVars
    /\ UNCHANGED bioVars
    /\ UNCHANGED softVars
    /\ UNCHANGED recVars

\* process_many with mode "joint": make_label_file, lines 428-451
MakeLabelFile ==
    /\ ppc = "sentences"
    /\ info' = make_label_file(sentences)
    /\ ppc' = "done"
    /\ UNCHANGED <<quintuplets, sentences, tag_info>>
    /\ UNCHANGED cubeVars
    /\ UNCHANGED fillVars
    /\ UNCHANGED bioVars
    /\ UNCHANGED softVars
    /\ UNCHANGED recVars

\* process_many with mode "tags": make_tag_label_file, lines 454-476
MakeTagLabelFile ==
    /\ ppc = "sentences"
    /\ tag_info' = make_tag_label_file(sentences)
    /\ ppc' = "done"
    /\ UNCHANGED <<quintuplets, sentences, info>>
    /\ UNCHANGED cubeVars
    /\ UNCHANGED fillVars
    /\ UNCHANGED bioVars
    /\ UNCHANGED softVars
    /\ UNCHANGED recVars

(* Inputs of the data preparation. *)

\* the token lists of the texts
PrepTexts == {<<"a", "b">>, <<"c", "d">>}

\* how many quintuplets the input file holds
QuintupletCounts == 0 .. 2

PrepRelations == {"p", "r"}

PrepQualifiers == {"p", "q"}

\* the quintuplets load_quintuplets can return: any three spans of the text
Quintuplets ==
    {FlatQuintuplet(t, sp[1], sp[2], sp[3], r, q) :
        t \in PrepTexts,
        sp \in SpansIn(2) \X SpansIn(2) \X SpansIn(2),
        r \in PrepRelations, q \in PrepQualifiers}

InitPrep ==
    /\ ppc = "load"
    /\ quintuplets \in UNION {[1 .. k -> Quintuplets] : k \in QuintupletCounts}
    /\ sentences = <<>>
    /\ info = NoInfo
    /\ tag_info = NoInfo
    /\ CubeIdle
    /\ FillIdle
    /\ BioIdle
    /\ SoftIdle
    /\ RecIdle

NextPrep == MakeSentences \/ MakeLabelFile \/ MakeTagLabelFile

SpecPrep == InitPrep /\ [][NextPrep]_vars

(* Properties of the data preparation. *)

\* the qualifiers of the sentences make_sentences wrote
WrittenQualifiers ==
    UNION {Range(sentences[n].qualifierMentions) : n \in 1 .. Len(sentences)}

\* C23: every qualifier of every sentence make_sentences writes references
\* three different entities: its head, tail and value spans are pairwise
\* distinct, whatever the input quintuplets.
C23_DistinctEntities ==
    ppc # "load" =>
        \A q \in WrittenQualifiers :
            /\ q.em1Id # q.em2Id
            /\ q.em1Id # q.em3Id
            /\ q.em2Id # q.em3Id

\* make_label_file has written its label file
InfoWritten == ppc = "done" /\ info # NoInfo

\* make_tag_label_file has written its label file
TagInfoWritten == ppc = "done" /\ tag_info # NoInfo

\* the ids of the id map
IdSpace(f) == {f.id[name] : name \in DOMAIN f.id}

\* the four classes of ids are pairwise disjoint and cover the id space
HardPartition(f) ==
    LET none == {f.id["None"]}
        ent == Range(f.entity)
        rel == Range(f.relation)
        qual == Range(f.qualifier)
    IN  /\ none \cap ent = {}
        /\ none \cap rel = {}
        /\ none \cap qual = {}
        /\ ent \cap rel = {}
        /\ ent \cap qual = {}
        /\ rel \cap qual = {}
        /\ none \cup ent \cup rel \cup qual = IdSpace(f)

\* the names that label a relation and a qualifier
SharedNames == RelationNames(sentences) \cap QualifierNames(sentences)

\* C24 as stated: the label file of make_label_file is a hard partition of
\* the id space into the None id, the entity ids, the relation ids and the
\* qualifier ids, whatever the label names of the sentences.
C24_HardPartition == InfoWritten => HardPartition(info)

\* C24: the None id, the entity ids and the ids of relations or qualifiers
\* are pairwise disjoint and cover the id space; the relation ids and the
\* qualifier ids have exactly the ids of the names that label both in common,
\* so the four classes are a hard partition when no name labels both.
C24_PartitionUpToSharedNames ==
    InfoWritten =>
        /\ {info.id["None"]} \cap Range(info.entity) = {}
        /\ ({info.id["None"]} \cup Range(info.entity))
               \cap (Range(info.relation) \cup Range(info.qualifier)) = {}
        /\ {info.id["None"]} \cup Range(info.entity)
               \cup Range(info.relation) \cup Range(info.qualifier)
               = IdSpace(info)
        /\ Range(info.relation) \cap Range(info.qualifier)
               = {info.id[name] : name \in SharedNames}
        /\ (SharedNames = {} => HardPartition(info))

C24_Witness ==
    /\ InfoWritten
    /\ SharedNames = {}
    /\ Len(info.relation) = 1
    /\ Len(info.qualifier) = 2
    /\ HardPartition(info)

\* "None" and "Entity" as make_tag_label_file would spell them
NoneChars == <<"N", "o", "n", "e">>

EntityChars == <<"E", "n", "t", "i", "t", "y">>

\* C25 as stated: the id map of every label file, of make_label_file and of
\* make_tag_label_file, has the keys "None" and "Entity".
C25_NoneAndEntityKeys ==
    /\ InfoWritten => {"None", "Entity"} \subseteq DOMAIN info.id
    /\ TagInfoWritten => {NoneChars, EntityChars} \subseteq DOMAIN tag_info.id

\* C25: the id map of make_label_file has the keys "None" and "Entity"; the
\* id map of make_tag_label_file has the key "O" and neither of them.
C25_NoneAndEntityKeysJoint ==
    /\ InfoWritten => {"None", "Entity"} \subseteq DOMAIN info.id
    /\ TagInfoWritten =>
           /\ TagO \in DOMAIN tag_info.id
           /\ {NoneChars, EntityChars} \cap DOMAIN tag_info.id = {}

C25_Witness ==
    /\ InfoWritten
    /\ Len(sentences) = 2
    /\ info.id["None"] = 0
    /\ info.id["Entity"] = 1
    /\ info.id["p"] = 2

C25_TagWitness ==
    /\ TagInfoWritten
    /\ Len(sentences) = 2
    /\ tag_info.id[TagO] = 0
    /\ DOMAIN tag_info.id = {TagO, TagB(Chars("q")), TagI(Chars("q")), Chars("q")}
    /\ tag_info.q_num_logits = 3

\* ent2offset of add_joint_label for a sentence
Ent2Offset(s) ==
    [emId \in {s.entityMentions[e].emId : e \in 1 .. Len(s.entityMentions)} |->
        LET e == CHOOSE e \in 1 .. Len(s.entityMentions) :
                     /\ s.entityMentions[e].emId = emId
                     /\ \A later \in e + 1 .. Len(s.entityMentions) :
                            s.entityMentions[later].emId # emId
        IN  s.entityMentions[e].offset]

\* the values add_joint_label writes into the cubes of the sentences
WrittenValues(ids) ==
    UNION {UNION {{en[4] : en \in Range(QualifierEntries(Ent2Offset(sentences[n]),
                                            sentences[n].qualifierMentions[r], ids))} :
                      r \in 1 .. Len(sentences[n].qualifierMentions)} :
           n \in 1 .. Len(sentences)}

\* C28: in the label file of make_label_file the None id and every qualifier
\* id are below q_num_logits, so every value add_joint_label writes into the
\* quintuplet cube and every channel the decoder reads (q_label, none_idx)
\* is an index into a channel dimension of size q_num_logits.
C28_ChannelsInRange ==
    InfoWritten =>
        /\ info.id["None"] \in 0 .. info.q_num_logits - 1
        /\ Range(info.qualifier) \subseteq 0 .. info.q_num_logits - 1
        /\ WrittenValues(info.id) \subseteq 0 .. info.q_num_logits - 1
        /\ WrittenValues(info.id) \subseteq Range(info.qualifier)

C28_Witness ==
    /\ InfoWritten
    /\ Len(info.relation) = 2
    /\ Len(info.qualifier) = 2
    /\ info.q_num_logits = 4
    /\ WrittenValues(info.id) = {2, 3}

(***************************************************************************)
(* Exact recovery from filled grids: decode_nonzero_cuboids recovers the   *)
(* boxes of a filled 3-D array and decode_nonzero_spans the runs of a      *)
(* label list.  Their definitions are outside the source files at hand     *)
(* (analysis.py imports and calls them); they are written from section 4.4 *)
(* and section 8 of the specification.                                     *)
(***************************************************************************)

\* the nonzero coordinates of an array
NonzeroCells(a) == {c \in DOMAIN a.data : a.data[c] # 0}

\* two coordinates next to each other along one axis
Adjacent(c, d) ==
    \/ c[1] = d[1] /\ c[2] = d[2] /\ (c[3] = d[3] + 1 \/ d[3] = c[3] + 1)
    \/ c[1] = d[1] /\ c[3] = d[3] /\ (c[2] = d[2] + 1 \/ d[2] = c[2] + 1)
    \/ c[2] = d[2] /\ c[3] = d[3] /\ (c[1] = d[1] + 1 \/ d[1] = c[1] + 1)

\* Cluster that joins neighbours whatever their values
RECURSIVE ClusterAnyValue(_, _, _)
ClusterAnyValue(a, S, frontier) ==
    UNION {IF T = {} THEN S ELSE ClusterAnyValue(a, S \cup T, T) :
              T \in {{d \in NonzeroCells(a) \ S :
                         \E c \in frontier : Adjacent(c, d)}}}

\* the connected same-value cluster that holds the coordinates of S: S grown
\* by the same-value neighbours (T) of the coordinates added last, until
\* nothing is added
RECURSIVE Cluster(_, _, _)
Cluster(a, S, frontier) ==
    UNION {IF T = {} THEN S ELSE Cluster(a, S \cup T, T) :
              T \in {{d \in NonzeroCells(a) \ S :
                         \E c \in frontier : a.data[c] = a.data[d]
                                                /\ Adjacent(c, d)}}}

\* the clusters of the coordinates of rest, one cluster at a time
RECURSIVE ClustersFrom(_, _)
ClustersFrom(a, rest) ==
    IF rest = {} THEN {}
    ELSE UNION {{cl} \cup ClustersFrom(a, rest \ cl) :
                   cl \in {Cluster(a, {CHOOSE c \in rest : TRUE},
                                   {CHOOSE c \in rest : TRUE})}}

Clusters(a) == ClustersFrom(a, NonzeroCells(a))

\* the half-open range of the values of axis n over a cluster
AxisRange(cl, n) ==
    <<Min({c[n] : c \in cl}), Max({c[n] : c \in cl}) + 1>>

\* the tight bounding box of a cluster and its value
BoundingBox(a, cl) ==
    <<AxisRange(cl, 1), AxisRange(cl, 2), AxisRange(cl, 3),
      a.data[CHOOSE c \in cl : TRUE]>>

\* the coordinates inside a box
BoxCells(b) ==
    {c \in (b[1][1] .. b[1][2] - 1) \X (b[2][1] .. b[2][2] - 1)
               \X (b[3][1] .. b[3][2] - 1) : TRUE}

\* the cluster is a full rectangular fill, not merely bounded by one
FullFill(a, cl) == BoxCells(BoundingBox(a, cl)) = cl

\* the boxes of the clusters that are full fills (full), and the bounding
\* boxes of the clusters that are not (partial)
decode_nonzero_cuboids(a) ==
    [full |-> {BoundingBox(a, cl) : cl \in {k \in Clusters(a) : FullFill(a, k)}},
     partial |->
         {BoundingBox(a, cl) : cl \in {k \in Clusters(a) : ~FullFill(a, k)}}]

\* test_decode_nonzero_cuboids: the cube of an encoded sentence is decoded;
\* the specification leaves it open whether a cluster that is not a full
\* fill is reported by its bounding box (keep) or not at all
DecodeCuboids ==
    /\ fpc = "done"
    /\ rpc = "cuboids"
    /\ \E c \in {numpy(returned.quintupletMatrix)} :
         \E boxes \in {decode_nonzero_cuboids(c)}, keep \in BOOLEAN :
            cuboids' = boxes.full \cup (IF keep THEN boxes.partial ELSE {})
    /\ rpc' = "done"
    /\ UNCHANGED <<nz_labels, nz_spans>>
    /\ UNCHANGED cubeVars
    /\ UNCHANGED fillVars
    /\ UNCHANGED bioVars
    /\ UNCHANGED softVars
    /\ UNCHANGED prepVars

\* the sentence lengths of the recovery scenario
CuboidLens == 1 .. 2

\* a sentence with qualifiers is encoded and then its cube is decoded
InitCuboids ==
    /\ CubeIdle
    /\ BioIdle
    /\ SoftIdle
    /\ PrepIdle
    /\ rpc = "cuboids"
    /\ nz_labels = <<>>
    /\ nz_spans = <<>>
    /\ cuboids = {}
    /\ \E n \in CuboidLens, k \in QualEntCounts, nq \in QualCounts :
         \E ents \in EntityLists(n, k, {"Entity"}) :
            /\ \A a, b \in 1 .. k :
                 a < b => LexLess(<<ents[a].offset[1], ents[a].offset[2], 0>>,
                                  <<ents[b].offset[1], ents[b].offset[2], 0>>)
            /\ \E quals \in QualifierLists(nq, k) :
                 FillStart(Sentence(Tokens(n), ents, <<>>, quals))

NextCuboids == FillInit \/ EntStep \/ QualStep \/ FillFinish \/ DecodeCuboids

SpecCuboids == InitCuboids /\ [][NextCuboids]_vars

(* Properties of the exact recovery. *)

\* the box step 4 of the encoder fills for qualifier q of sentence s
QualifierBox(s, q) ==
    <<SpanOf(s, q.em1Id), SpanOf(s, q.em2Id), SpanOf(s, q.em3Id),
      label_vocab.id[q.label]>>

\* step 4 of the encoder applied to a set of disjoint boxes
Refill(shape, boxes) ==
    [shape |-> shape,
     data |-> [c \in Cells(shape) |->
                  IF \E b \in boxes : c \in BoxCells(b)
                  THEN (CHOOSE b \in boxes : c \in BoxCells(b))[4]
                  ELSE 0]]

\* one box per qualifier, and filling the boxes gives the array again
RecoversQualifiers ==
    LET quals == returned.qualifierMentions
    IN  /\ cuboids = {QualifierBox(returned, quals[q]) : q \in 1 .. Len(quals)}
        /\ Cardinality(cuboids) = Len(quals)
        /\ Refill(returned.quintupletMatrix.shape, cuboids)
               = numpy(returned.quintupletMatrix)

\* two qualifiers with the same label whose cuboids touch along an axis
TouchingSameLabel(s) ==
    \E a, b \in 1 .. Len(s.qualifierMentions) :
        /\ a # b
        /\ s.qualifierMentions[a].label = s.qualifierMentions[b].label
        /\ \E c, d \in Cells(<<SeqLen(s), SeqLen(s), SeqLen(s)>>) :
              /\ InCuboid(s, s.qualifierMentions[a], c)
              /\ InCuboid(s, s.qualifierMentions[b], d)
              /\ Adjacent(c, d)

\* C26 as stated: for the cube of a sentence whose qualifier cuboids share
\* no coordinate, decode_nonzero_cuboids returns exactly one box per
\* qualifier, and filling the boxes with their values gives the cube again.
C26_RecoversDisjoint ==
    (rpc = "done" /\ NoSharedTriple(returned)) => RecoversQualifiers

\* C26: for the cube of a sentence whose qualifier cuboids share no
\* coordinate and, when they carry the same label, do not touch along an
\* axis, decode_nonzero_cuboids returns exactly one box per qualifier, and
\* filling the boxes with their values gives the cube again.
C26_RecoversSeparated ==
    (rpc = "done" /\ NoSharedTriple(returned) /\ ~TouchingSameLabel(returned))
        => RecoversQualifiers

C26_Witness ==
    /\ rpc = "done"
    /\ NoSharedTriple(returned)
    /\ ~TouchingSameLabel(returned)
    /\ Len(returned.qualifierMentions) = 2
    /\ \E b \in cuboids : Cardinality(BoxCells(b)) = 2
    /\ RecoversQualifiers

(* decode_nonzero_spans, from the scenarios of section 8: a scan of the    *)
(* labels that opens a span at a nonzero label and closes it at a zero.    *)

\* the scan that forgets the span still open at the end of the labels
RECURSIVE ScanSpansNoTail(_, _, _, _)
ScanSpansNoTail(ls, pos, start, acc) ==
    IF pos > Len(ls) THEN acc
    ELSE IF ls[pos] = 0
         THEN IF start = -1 THEN ScanSpansNoTail(ls, pos + 1, -1, acc)
              ELSE ScanSpansNoTail(ls, pos + 1, -1,
                                   Append(acc, <<start, pos - 1>>))
         ELSE ScanSpansNoTail(ls, pos + 1,
                              IF start = -1 THEN pos - 1 ELSE start, acc)

\* the scan from list position pos on; start is the first index of the open
\* span or -1, acc the spans closed so far
RECURSIVE ScanSpans(_, _, _, _)
ScanSpans(ls, pos, start, acc) ==
    IF pos > Len(ls)
    THEN IF start = -1 THEN acc ELSE Append(acc, <<start, Len(ls)>>)
    ELSE IF ls[pos] = 0
         THEN IF start = -1 THEN ScanSpans(ls, pos + 1, -1, acc)
              ELSE ScanSpans(ls, pos + 1, -1, Append(acc, <<start, pos - 1>>))
         ELSE ScanSpans(ls, pos + 1, IF start = -1 THEN pos - 1 ELSE start, acc)

decode_nonzero_spans(ls) == ScanSpans(ls, 1, -1, <<>>)

\* test_decode_nonzero_spans: the spans of a label list
DecodeSpans ==
    /\ rpc = "spans"
    /\ nz_spans' = decode_nonzero_spans(nz_labels)
    /\ rpc' = "done"
    /\ UNCHANGED <<nz_labels, cuboids>>
    /\ UNCHANGED cubeVars
    /\ UNCHANGED fillVars
    /\ UNCHANGED bioVars
    /\ UNCHANGED softVars
    /\ UNCHANGED prepVars

\* the label ids of a diagonal
NonzeroLabels == 0 .. 2

InitNonzero ==
    /\ rpc = "spans"
    /\ nz_labels \in SeqsUpTo(NonzeroLabels, MaxLabels)
    /\ nz_spans = <<>>
    /\ cuboids = {}
    /\ CubeIdle
    /\ FillIdle
    /\ BioIdle
    /\ SoftIdle
    /\ PrepIdle

NextNonzero == DecodeSpans

SpecNonzero == InitNonzero /\ [][NextNonzero]_vars

\* the maximal contiguous runs of nonzero entries of ls, as half-open spans
NonzeroRuns(ls) ==
    {sp \in (0 .. Len(ls)) \X (0 .. Len(ls)) :
        /\ sp[1] < sp[2]
        /\ \A p \in sp[1] .. sp[2] - 1 : ls[p + 1] # 0
        /\ sp[1] = 0 \/ ls[sp[1]] = 0
        /\ sp[2] = Len(ls) \/ ls[sp[2] + 1] = 0}

InitFillOrder ==
    /\ CubeIdle
    /\ BioIdle
    /\ SoftIdle
    /\ PrepIdle
    /\ RecIdle
    /\ \E n \in 1 .. MaxSeqLen, k \in RelEntCounts, nr \in 0 .. MaxRels :
         \E ents \in EntityLists(n, k, {"Entity"}) :
            \E listed \in PermsOf(ents) :
                \E rels \in RelationLists(nr, k) :
                    FillStart(Sentence(Tokens(n), listed, rels, <<>>))

NextFillOrder == FillInit \/ EntStep \/ RelStep \/ FillFinish

SpecFillOrder == InitFillOrder /\ [][NextFillOrder]_vars

\* the relations of s whose rectangle head x tail holds cell c
CoveringRelations(s, c) ==
    {r \in 1 .. Len(s.relationMentions) :
        /\ Covers(Ent2Offset(s)[s.relationMentions[r].em1Id], c[1])
        /\ Covers(Ent2Offset(s)[s.relationMentions[r].em2Id], c[2])}

\* cell c lies in the square of an entity of s
InEntitySquare(s, c) ==
    \E e \in 1 .. Len(s.entityMentions) :
        Covers(s.entityMentions[e].offset, c[1])
            /\ Covers(s.entityMentions[e].offset, c[2])

C30_OnlyInsideSpans ==
    bpc = "encoded" =>
        /\ \A n \in 1 .. Len(spans) : spans[n][1] >= 0
        /\ \A p \in 0 .. length - 1 :
               tags[p + 1] # TagO =>
                   \E n \in 1 .. Len(spans) :
                       spans[n][1] <= p /\ p < spans[n][2]

====
